---------------------------- MODULE Spec2Model ----------------------------
(***************************************************************************)
(* Model of the autonomous-agent turn loop (src/agents/autonomous/         *)
(* handler.ts): the streaming request wrapper with its retries, the        *)
(* dispatcher loop with its control-tag detection, the concurrent search   *)
(* batch and the cancellation / error paths.                               *)
(*                                                                         *)
(* Text is a sequence of tokens.  A token is a word, a blank (" ") or one  *)
(* whole opening or closing control tag, so that String.includes of a      *)
(* closing tag is membership of the token and the regular expressions      *)
(* <T>([\s\S]*?)</T> are searches for an opening token followed by the     *)
(* nearest closing token.                                                  *)
(***************************************************************************)
EXTENDS Integers, Sequences, FiniteSets, TLC

(***************************************************************************)
(* Bounds of the model and constants of the program                        *)
(***************************************************************************)
\* chunks one provider stream can deliver before it ends
MaxChunks == 2
\* largest retry count given to the wrapper when it is exercised alone
MaxRetriesArg == 4
\* provider calls that can fail in one run of the dispatcher
MaxFailures == 4
\* longest list of sources given to SearchStatus
MaxSources == 5
\* longest list of queries given to SearchStatus
MaxQueries == 3
\* handler.ts:245
MAX_LOOPS == 6
\* handler.ts:312, the retry count the dispatcher passes to the wrapper
DispatcherRetries == 3
\* handler.ts:68
BaseDelay == 2000
\* handler.ts:68
DelayOffset == 1000
\* SearchStatus.tsx:81 and 82
CollapsedCount == 4

(***************************************************************************)
(* Text                                                                    *)
(***************************************************************************)
TagNames == {"SEARCH", "DEEP", "IMAGE", "PROJECT", "CANVAS_TRIGGER", "CANVAS", "STUDY"}

Open(t) ==
    CASE t = "SEARCH" -> "<SEARCH>"
      [] t = "DEEP" -> "<DEEP>"
      [] t = "IMAGE" -> "<IMAGE>"
      [] t = "PROJECT" -> "<PROJECT>"
      [] t = "CANVAS_TRIGGER" -> "<CANVAS_TRIGGER>"
      [] t = "CANVAS" -> "<CANVAS>"
      [] t = "STUDY" -> "<STUDY>"

Close(t) ==
    CASE t = "SEARCH" -> "</SEARCH>"
      [] t = "DEEP" -> "</DEEP>"
      [] t = "IMAGE" -> "</IMAGE>"
      [] t = "PROJECT" -> "</PROJECT>"
      [] t = "CANVAS_TRIGGER" -> "</CANVAS_TRIGGER>"
      [] t = "CANVASTRIGGER" -> "</CANVASTRIGGER>"
      [] t = "CANVAS" -> "</CANVAS>"
      [] t = "STUDY" -> "</STUDY>"

\* the closing tags whose presence ends the consumption of a stream
ClosingTags ==
    {"</CANVAS_TRIGGER>", "</CANVASTRIGGER>", "</SEARCH>", "</DEEP>",
     "</IMAGE>", "</PROJECT>", "</CANVAS>", "</STUDY>"}

Range(s) == {s[i] : i \in 1..Len(s)}

Includes(text, tok) == tok \in Range(text)

\* no closing tag is ever seen
HasClosingTagNever(text) == FALSE

HasClosingTag(text) == \E c \in ClosingTags : Includes(text, c)

\* String.prototype.trim on a token sequence: blanks at both ends removed
RECURSIVE TrimLeft(_)
TrimLeft(s) == IF s # <<>> /\ Head(s) = " " THEN TrimLeft(Tail(s)) ELSE s

RECURSIVE TrimRight(_)
TrimRight(s) ==
    IF s # <<>> /\ s[Len(s)] = " " THEN TrimRight(SubSeq(s, 1, Len(s) - 1)) ELSE s

Trim(s) == TrimRight(TrimLeft(s))

\* positions of `tok' in text at or after position `from'
Positions(text, tok, from) == {i \in from..Len(text) : text[i] = tok}

Min(S) == CHOOSE x \in S : \A y \in S : x <= y

\* a match that does not ask for the opening token: any closing token matches
RegexMatchCloseOnly(text, open, close, from) ==
    IF Positions(text, close, from) = {} THEN <<0, 0>>
    ELSE <<from - 1, Min(Positions(text, close, from))>>

\* One match of /<open>([\s\S]*?)<close>/ searched from position `from':
\* the leftmost opening token that has a closing token after it, with the
\* nearest such closing token.  <<0, 0>> when there is no match.
RegexMatch(text, open, close, from) ==
    LET os == {i \in Positions(text, open, from) : Positions(text, close, i + 1) # {}}
    IN  IF os = {} THEN <<0, 0>>
        ELSE LET i == Min(os) IN <<i, Min(Positions(text, close, i + 1))>>

\* capture group 1 of a match
Group1(text, m) == SubSeq(text, m[1] + 1, m[2] - 1)

\* String.prototype.matchAll with the g flag: successive matches, each
\* search resuming after the end of the previous match; the result is the
\* sequence of the capture groups
RECURSIVE MatchAllFrom(_, _, _, _)
MatchAllFrom(text, open, close, from) ==
    LET m == RegexMatch(text, open, close, from)
    IN  IF m = <<0, 0>> THEN <<>>
        ELSE <<Group1(text, m)>> \o MatchAllFrom(text, open, close, m[2] + 1)

\* handler.ts:347
SearchMatches(text) == MatchAllFrom(text, "<SEARCH>", "</SEARCH>", 1)

\* a match that asks for the opening token only
MatchOpenOnly(text, open, close) == [found |-> Includes(text, open), g1 |-> <<>>]

\* String.prototype.match without the g flag: the first match or none
\* (a record: found, and capture group 1)
Match(text, open, close) ==
    LET m == RegexMatch(text, open, close, 1)
    IN  IF m = <<0, 0>> THEN [found |-> FALSE, g1 |-> <<>>]
        ELSE [found |-> TRUE, g1 |-> Group1(text, m)]

\* handler.ts:403-405, the three alternatives tried in order
CanvasMatch(text) ==
    LET a == Match(text, "<CANVAS_TRIGGER>", "</CANVAS_TRIGGER>")
        b == Match(text, "<CANVAS_TRIGGER>", "</CANVASTRIGGER>")
        c == Match(text, "<CANVAS>", "</CANVAS>")
    IN  IF a.found THEN a ELSE IF b.found THEN b ELSE c

(***************************************************************************)
(* Errors                                                                  *)
(***************************************************************************)
\* An error object: its name, its status and what its message contains
\* (hasMsg is FALSE for an error without message).
MkError(name, status, hasMsg, m429, mQuota, mOpenRouter) ==
    [name |-> name, status |-> status, hasMsg |-> hasMsg,
     m429 |-> m429, mQuota |-> mQuota, mOpenRouter |-> mOpenRouter]

ErrStatus429 == MkError("Error", 429, TRUE, FALSE, FALSE, FALSE)
ErrMsg429 == MkError("Error", 0, TRUE, TRUE, FALSE, FALSE)
ErrMsgQuota == MkError("Error", 0, TRUE, FALSE, TRUE, FALSE)
ErrServer == MkError("Error", 500, TRUE, FALSE, FALSE, FALSE)
ErrNoMessage == MkError("Error", 0, FALSE, FALSE, FALSE, FALSE)
ErrOpenRouter == MkError("Error", 0, TRUE, FALSE, FALSE, TRUE)
ErrAbort == MkError("AbortError", 0, TRUE, FALSE, FALSE, FALSE)
\* the error of handler.ts:77
ErrMaxRetries == MkError("Error", 0, TRUE, FALSE, FALSE, FALSE)
NoError == MkError("none", 0, FALSE, FALSE, FALSE, FALSE)

\* the failures a provider call can end in
ProviderErrors == {ErrStatus429, ErrMsg429, ErrMsgQuota, ErrServer, ErrNoMessage, ErrAbort}

\* any error that carries a status counts as a quota error
isQuotaErrorAnyStatus(e) ==
    \/ e.status # 0
    \/ (e.hasMsg /\ e.m429)
    \/ (e.hasMsg /\ e.mQuota)

\* handler.ts:63-65
isQuotaError(e) ==
    \/ e.status = 429
    \/ (e.hasMsg /\ e.m429)
    \/ (e.hasMsg /\ e.mQuota)

RECURSIVE Pow2(_)
Pow2(n) == IF n = 0 THEN 1 ELSE 2 * Pow2(n - 1)

\* a delay that grows linearly from the offset
RetryDelayLinear(attempt) == attempt * BaseDelay + DelayOffset

\* handler.ts:68
RetryDelay(attempt) == Pow2(attempt) * BaseDelay + DelayOffset

\* Math.round(delay / 1000), handler.ts:70
RoundSeconds(delay) == (delay + 500) \div 1000

\* handler.ts:70, the notice handed to onRetry
RetryNotice(delay) == [kind |-> "retry", seconds |-> RoundSeconds(delay)]


(***************************************************************************)
(* State                                                                   *)
(***************************************************************************)
VARIABLES
    input,                \* the AgentInput of the run (handler.ts:91)
    env,                  \* what the collaborators can answer in this run
    ui,                   \* props and state of SearchStatus (SearchStatus.tsx:28-31)
    reading,              \* index of the file whose read is awaited, 0 when none
    pc,                   \* position of runAutonomousAgent
    aborted,              \* signal.aborted
    model,                \* handler.ts:91, reassigned at 147-175
    thinkingBudget,       \* handler.ts:150
    isNative,             \* handler.ts:169
    modelSupportsSearch,  \* handler.ts:170
    finalResponseText,    \* handler.ts:166
    out,                  \* the calls of onStreamChunk, in order
    routingAction,        \* routing.action (handler.ts:185), until it is read at 242
    routingParameters,    \* routing.parameters (handler.ts:185, 414)
    externalSearchContext,\* handler.ts:188
    externalMetadata,     \* handler.ts:189
    metadataPayload,      \* handler.ts:239
    fallbackSearchContext,\* handler.ts:240
    currentAction,        \* handler.ts:242
    currentPrompt,        \* handler.ts:243
    loopCount,            \* handler.ts:244
    generatedThisLoop,    \* handler.ts:314
    chunksSeen,           \* chunks the current stream has delivered
    batch,                \* the promises of the Promise.all of handler.ts:357
    result,               \* what runAutonomousAgent returned
    wstate,               \* position of generateContentStreamWithRetry
    caller,               \* who awaits the wrapper: the dispatcher or a direct caller
    retries,              \* the wrapper's parameter `retries'
    attempt,              \* handler.ts:59
    calls,                \* the provider calls of the current invocation, each with its outcome
    delays,               \* the timeouts the current invocation has set
    notices,              \* the calls of onRetry by the current invocation
    werror,               \* the error the wrapper threw
    request,              \* the params of the current invocation
    hist                  \* history of the run, used by the properties only

vars == <<input, env, ui, reading, pc, aborted, model, thinkingBudget, isNative,
          modelSupportsSearch, finalResponseText, out, routingAction,
          routingParameters,
          externalSearchContext, externalMetadata, metadataPayload,
          fallbackSearchContext,
          currentAction, currentPrompt, loopCount, generatedThisLoop,
          chunksSeen, batch, result, wstate, caller, retries, attempt, calls,
          delays, notices, werror, request, hist>>

agentVars == <<input, env, ui, reading, pc, aborted, model, thinkingBudget, isNative,
               modelSupportsSearch, finalResponseText, routingAction,
               routingParameters,
               externalSearchContext, externalMetadata, metadataPayload,
          fallbackSearchContext,
               currentAction, currentPrompt, loopCount, generatedThisLoop,
               chunksSeen, batch, result, hist>>

\* the dispatcher's variables that the wrapper never touches
wrapperFrame == <<input, env, ui, reading, pc, aborted, model, thinkingBudget, isNative,
                  modelSupportsSearch, finalResponseText, routingAction,
                  routingParameters, externalSearchContext, externalMetadata,
                  metadataPayload, fallbackSearchContext, currentAction,
                  currentPrompt, loopCount, generatedThisLoop, chunksSeen, batch,
                  result>>

\* an entry of the log of onStreamChunk
OutEntry(kind, text, seconds) == [kind |-> kind, text |-> text, seconds |-> seconds]

(***************************************************************************)
(* generateContentStreamWithRetry (handler.ts:48-78)                       *)
(***************************************************************************)
\* the loop condition with < for <=
AttemptAllowedExclusive(a, r) == a < r

\* handler.ts:59, the loop condition when the loop is entered or re-entered
AttemptAllowed(a, r) == a <= r

\* the retry test with <= for <
ShouldRetryInclusive(e, a, r) == isQuotaError(e) /\ a <= r

\* handler.ts:67
ShouldRetry(e, a, r) == isQuotaError(e) /\ a < r

\* the callback is not called
NotifyNothing(log, delay) == log

\* handler.ts:70, onRetry is called with the notice of the delay
Notify(log, delay) == Append(log, RetryNotice(delay))

\* the state of the wrapper when it is invoked with retry count r
WrapperEntry(r) ==
    /\ retries' = r
    /\ attempt' = 0
    /\ calls' = <<>>
    /\ delays' = <<>>
    /\ notices' = <<>>
    /\ IF AttemptAllowed(0, r)
       THEN wstate' = "calling" /\ werror' = NoError
       ELSE wstate' = "thrown" /\ werror' = ErrMaxRetries

\* handler.ts:61, ai.models.generateContentStream resolves
ProviderCallOk ==
    /\ wstate = "calling"
    /\ calls' = Append(calls, NoError)
    /\ wstate' = "returned"
    /\ UNCHANGED <<agentVars, out, caller, retries, attempt, delays, notices, werror, request>>

\* handler.ts:62-75, ai.models.generateContentStream rejects with e
ProviderCallFail(e) ==
    /\ wstate = "calling"
    /\ caller = "agent" => hist.failures < MaxFailures
    /\ calls' = Append(calls, e)
    /\ IF ShouldRetry(e, attempt, retries)
       THEN LET delay == RetryDelay(attempt) IN
            /\ notices' = Notify(notices, delay)
            /\ out' = IF caller = "agent"
                      THEN Append(out, OutEntry("retry", <<>>, RoundSeconds(delay)))
                      ELSE out
            /\ delays' = Append(delays, delay)
            /\ wstate' = "delaying"
            /\ UNCHANGED werror
       ELSE /\ wstate' = "thrown"
            /\ werror' = e
            /\ UNCHANGED <<notices, out, delays>>
    /\ hist' = [hist EXCEPT !.failures = IF caller = "agent" THEN @ + 1 ELSE @]
    /\ UNCHANGED <<wrapperFrame, caller, retries, attempt, request>>

\* handler.ts:71 and 59, the timeout fires and the loop goes round
DelayElapsed ==
    /\ wstate = "delaying"
    /\ attempt' = attempt + 1
    /\ IF AttemptAllowed(attempt + 1, retries)
       THEN wstate' = "calling" /\ UNCHANGED werror
       ELSE wstate' = "thrown" /\ werror' = ErrMaxRetries
    /\ UNCHANGED <<agentVars, out, caller, retries, calls, delays, notices, request>>

(***************************************************************************)
(* Inputs and collaborators of runAutonomousAgent                          *)
(***************************************************************************)
\* A model id, by what the code asks of it: blank (undefined, empty or only
\* blanks), startsWith('gemini'), startsWith('veo'), includes('google'),
\* includes('gemini-2.5'), includes('gemini-3'), includes('perplexity').
MkModel(id, blank, gem, veo, goo, g25, g3, per) ==
    [id |-> id, blank |-> blank, startsGemini |-> gem, startsVeo |-> veo,
     hasGoogle |-> goo, has25 |-> g25, has3 |-> g3, hasPerplexity |-> per]

Gemini25Flash == MkModel("gemini-2.5-flash", FALSE, TRUE, FALSE, FALSE, TRUE, FALSE, FALSE)
Gemini3Pro == MkModel("gemini-3-pro-preview", FALSE, TRUE, FALSE, FALSE, FALSE, TRUE, FALSE)
Gemini15Pro == MkModel("gemini-1.5-pro", FALSE, TRUE, FALSE, FALSE, FALSE, FALSE, FALSE)
Gpt4o == MkModel("openai/gpt-4o", FALSE, FALSE, FALSE, FALSE, FALSE, FALSE, FALSE)
Sonar == MkModel("perplexity/sonar", FALSE, FALSE, FALSE, FALSE, FALSE, FALSE, TRUE)
OrGemini3 == MkModel("openrouter/gemini-3", FALSE, FALSE, FALSE, FALSE, FALSE, TRUE, FALSE)
NoModel == MkModel("", TRUE, FALSE, FALSE, FALSE, FALSE, FALSE, FALSE)

\* handler.ts:28-31
isGoogleModel(m) ==
    IF m.blank THEN TRUE ELSE m.startsGemini \/ m.startsVeo \/ m.hasGoogle

RouterActions == {"SIMPLE", "SEARCH", "DEEP_SEARCH", "IMAGE", "PROJECT", "CANVAS", "STUDY"}

\* the user's prompt
UserPrompt == <<"ask">>

\* a prompt that is plain text
TextPrompt(t) == [kind |-> "text", text |-> t, queries |-> <<>>, context |-> <<>>]

\* handler.ts:388, the synthesis prompt: the original prompt, the list of
\* the queries and the search context
SynthesisPrompt(orig, queries, context) ==
    [kind |-> "synthesis", text |-> orig, queries |-> queries, context |-> context]

NoParameters == [set |-> FALSE, prompt |-> <<>>]

NoMetadata == [def |-> FALSE, items |-> <<>>]

\* the page the fetcher returns for a query that has results
PageFor(q) ==
    [url |-> IF Includes(q, "q2") THEN "u2" ELSE "u1", title |-> q, content |-> q]

\* handler.ts:200-202 and 377
MetaOf(p) == [uri |-> p.url, title |-> p.title]

\* a chunk of a provider stream: its text and its grounding chunks
Chunk(text) == [text |-> text, grounded |-> FALSE, grounding |-> <<>>]

GroundedChunk(text, g) == [text |-> text, grounded |-> TRUE, grounding |-> g]

Tag(t, content) == <<Open(t)>> \o content \o <<Close(t)>>

\* handler.ts:424, 429, 433, 437: the message returned, with the line of
\* the return statement
Message(line, text, meta) == [line |-> line, text |-> text, meta |-> meta]

NoResult == Message(0, <<>>, NoMetadata)

Placeholder == <<"(Generation stopped by user)">>

\* handler.ts:436-437
ErrorText(e) ==
    <<"An error occurred: ", IF e.hasMsg /\ e.mOpenRouter THEN "message" ELSE "friendly">>

\* the text that a search context is when it is emitted as text (handler.ts:420)
ContextAsText(ctx) == [i \in 1..Len(ctx) |-> "=== WEB RESULTS ==="]

RECURSIVE UserParts(_, _, _)
\* handler.ts:273-296, the parts pushed to the user turn for the files from
\* index i on; ok[i] tells whether the read of file i resolves
UserParts(files, ok, i) ==
    IF i > Len(files) THEN <<>>
    ELSE (CASE files[i] = "image" ->
                  <<[file |-> i, part |-> IF ok[i] THEN "inlineData" ELSE "imageError"]>>
            [] files[i] = "text" ->
                  <<[file |-> i, part |-> IF ok[i] THEN "fileText" ELSE "textError"]>>
            [] OTHER -> <<>>)
         \o UserParts(files, ok, i + 1)

\* the params of a request without the external search context
BuildRequestNoExternal(m, prm, budget, native, files, ext) ==
    [model |-> m, prompt |-> prm, thinkingBudget |-> budget,
     embedded |-> IF native THEN files ELSE <<>>, external |-> <<>>]

\* handler.ts:300-312, the params of a streaming request
BuildRequest(m, prm, budget, native, files, ext) ==
    [model |-> m, prompt |-> prm, thinkingBudget |-> budget,
     embedded |-> IF native THEN files ELSE <<>>, external |-> ext]

NoRequest == BuildRequest(NoModel, TextPrompt(<<>>), 0, FALSE, <<>>, <<>>)


(***************************************************************************)
(* runAutonomousAgent, routed mode (handler.ts:146-438)                    *)
(***************************************************************************)
wrapperVars == <<wstate, retries, attempt, calls, delays, notices, werror>>

\* handler.ts:398-417, the tag rules in the order of the code: the rule
\* taken (none: the turn is finalized), the new action and the new prompt
TagDecision(gen, fallback) ==
    LET searchMatches == SearchMatches(gen)
        deepMatch == Match(gen, "<DEEP>", "</DEEP>")
        imageMatch == Match(gen, "<IMAGE>", "</IMAGE>")
        projectMatch == Match(gen, "<PROJECT>", "</PROJECT>")
        canvasMatch == CanvasMatch(gen)
        studyMatch == Match(gen, "<STUDY>", "</STUDY>")
    IN  IF deepMatch.found
        THEN [rule |-> "DEEP", action |-> "DEEP_SEARCH", prompt |-> deepMatch.g1]
        ELSE IF Len(searchMatches) = 1 /\ fallback = <<>>
        THEN [rule |-> "SEARCH", action |-> "SEARCH", prompt |-> searchMatches[1]]
        ELSE IF imageMatch.found
        THEN [rule |-> "IMAGE", action |-> "IMAGE", prompt |-> imageMatch.g1]
        ELSE IF projectMatch.found
        THEN [rule |-> "PROJECT", action |-> "PROJECT", prompt |-> projectMatch.g1]
        ELSE IF canvasMatch.found
        THEN [rule |-> "CANVAS", action |-> "CANVAS", prompt |-> canvasMatch.g1]
        ELSE IF studyMatch.found
        THEN [rule |-> "STUDY", action |-> "STUDY", prompt |-> studyMatch.g1]
        ELSE [rule |-> "none", action |-> "none", prompt |-> <<>>]

\* the catch block without the placeholder for an empty text
CaughtNoPlaceholder(e, text) ==
    IF e.name = "AbortError"
    THEN Message(433, text, NoMetadata)
    ELSE Message(437, ErrorText(e), NoMetadata)

\* the catch block that takes every error for a cancellation
CaughtAllPartial(e, text) ==
    Message(433, IF text # <<>> THEN text ELSE Placeholder, NoMetadata)

\* handler.ts:431-438, the catch block
Caught(e, text) ==
    IF e.name = "AbortError"
    THEN Message(433, IF text # <<>> THEN text ELSE Placeholder, NoMetadata)
    ELSE Message(437, ErrorText(e), NoMetadata)

\* what the properties remember of the last post-stream step: the
\* iteration, its text, whether the search batch ran and with what results,
\* the fallback context and the metadata before the step, and the rule
\* taken with the action and the prompt it set
Last(iter, gen, ran, results, fb, meta, rule, action, prompt) ==
    [iter |-> iter, gen |-> gen, ran |-> ran, results |-> results,
     fallbackBefore |-> fb, metaBefore |-> meta,
     rule |-> rule, action |-> action, prompt |-> prompt]

NoLast == Last(0, <<>>, FALSE, <<>>, <<>>, NoMetadata, "none", "none", TextPrompt(<<>>))

\* the loop condition with <= for <
LoopConditionOffByOne(n) == n <= MAX_LOOPS

\* handler.ts:247, the condition of the while loop
LoopCondition(n) == n < MAX_LOOPS

\* the head of the while loop without the check of the abort signal
IterateIgnoringAbort(text, meta, prm) ==
    IF LoopCondition(loopCount)
    THEN /\ loopCount' = loopCount + 1
         /\ \E ok \in [1..Len(input.files) -> BOOLEAN] :
               request' = BuildRequest(model, prm, thinkingBudget, isNative,
                                       UserParts(input.files, ok, 1),
                                       externalSearchContext)
         /\ WrapperEntry(DispatcherRetries)
         /\ pc' = "request"
         /\ result' = result
    ELSE /\ pc' = "done"
         /\ result' = Message(429, text, meta)
         /\ UNCHANGED <<loopCount, request, wrapperVars>>

\* handler.ts:247-249 and 271-312: the head of the while loop, reached with
\* accumulated text `text', metadata `meta' and prompt `prm'.  Either the
\* next iteration starts, reads the attached files and issues its streaming
\* request, or the function returns at line 429.  The reads of 276-296 are
\* awaited one after another and each may resolve or reject; nothing of the
\* run is written and the abort signal is not looked at between them, so
\* they are taken in the step that issues the request.
Iterate(text, meta, prm) ==
    IF LoopCondition(loopCount) /\ ~aborted
    THEN /\ loopCount' = loopCount + 1
         /\ \E ok \in [1..Len(input.files) -> BOOLEAN] :
               request' = BuildRequest(model, prm, thinkingBudget, isNative,
                                       UserParts(input.files, ok, 1),
                                       externalSearchContext)
         /\ WrapperEntry(DispatcherRetries)
         /\ pc' = "request"
         /\ result' = result
    ELSE /\ pc' = "done"
         /\ result' = Message(429, text, meta)
         /\ UNCHANGED <<loopCount, request, wrapperVars>>

\* the routing parameters are set by every rule
ParametersAfterAnyRule(rule, prompt, params) == [set |-> TRUE, prompt |-> prompt]

\* handler.ts:409-417, routing.parameters after a rule is taken: only the
\* IMAGE rule assigns them (414)
ParametersAfter(rule, prompt, params) ==
    IF rule = "IMAGE" THEN [set |-> TRUE, prompt |-> prompt] ELSE params

\* the fallback context is emitted whatever the accumulated text is
UseFallbackAnyText(text, fallback) == fallback # <<>>

\* handler.ts:419, the test of the fallback emission
UseFallback(text, fallback) == Trim(text) = <<>> /\ fallback # <<>>

\* handler.ts:398-424, reached when no search batch has synthesized a
\* follow-up in this iteration: the tag rules, then either `continue' or
\* the finalization
Dispatch(gen, text, meta, outv) ==
    LET d == TagDecision(gen, fallbackSearchContext) IN
    IF d.rule # "none"
    THEN /\ currentAction' = d.action
         /\ currentPrompt' = TextPrompt(d.prompt)
         /\ routingParameters' = ParametersAfter(d.rule, d.prompt, routingParameters)
         /\ finalResponseText' = text
         /\ out' = outv
         /\ Iterate(text, meta, TextPrompt(d.prompt))
    ELSE LET useFallback == UseFallback(text, fallbackSearchContext)
             final == IF useFallback THEN ContextAsText(fallbackSearchContext) ELSE text
         IN  /\ finalResponseText' = final
             /\ out' = IF useFallback
                       THEN Append(outv, OutEntry("fallback", final, 0))
                       ELSE outv
             /\ pc' = "done"
             /\ result' = Message(424, final, meta)
             /\ UNCHANGED <<currentAction, currentPrompt, routingParameters,
                            loopCount, request, wrapperVars>>

\* a batch none of whose searches is started
StartNone(queries) ==
    [i \in 1..Len(queries) |->
        [query |-> queries[i], status |-> "pending", hits |-> FALSE,
         failed |-> FALSE, pages |-> <<>>, rank |-> 0]]

\* the queries run one after the other: only the first search is started
StartFirstOnly(queries) ==
    [i \in 1..Len(queries) |->
        [query |-> queries[i], status |-> IF i = 1 THEN "searching" ELSE "pending",
         hits |-> FALSE, failed |-> FALSE, pages |-> <<>>, rank |-> 0]]

\* handler.ts:357-367, Promise.all over queries.map: every query's search
\* is started before the first await
StartAll(queries) ==
    [i \in 1..Len(queries) |->
        [query |-> queries[i], status |-> "searching", hits |-> FALSE,
         failed |-> FALSE, pages |-> <<>>, rank |-> 0]]

\* handler.ts:346-395, the step after the chunk loop of an iteration whose
\* text is gen; `use' is what shouldUseExternalSearch answers
PostStream(gen, text, meta, outv, use, h) ==
    LET searchMatches == SearchMatches(gen)
        queries == [i \in 1..Len(searchMatches) |-> Trim(searchMatches[i])]
    IN  IF Len(searchMatches) > 0 /\ use
        THEN /\ batch' = StartAll(queries)
             /\ pc' = "batch"
             /\ finalResponseText' = text
             /\ out' = outv
             /\ metadataPayload' = meta
             /\ hist' = [h EXCEPT !.gate = [iter |-> loopCount, use |-> TRUE, queries |-> queries]]
             /\ UNCHANGED <<currentAction, currentPrompt, routingParameters,
                            loopCount, request, wrapperVars, result,
                            fallbackSearchContext>>
        ELSE /\ Dispatch(gen, text, meta, outv)
             /\ metadataPayload' = meta
             /\ hist' = [h EXCEPT
                           !.gate = IF Len(searchMatches) > 0
                                    THEN [iter |-> loopCount, use |-> FALSE, queries |-> queries]
                                    ELSE @,
                           !.streams = IF pc' = "request" THEN @ + 1 ELSE @,
                           !.last = Last(loopCount, gen, FALSE, <<>>,
                                         fallbackSearchContext, meta,
                                         TagDecision(gen, fallbackSearchContext).rule,
                                         currentAction', currentPrompt')]
             /\ UNCHANGED <<batch, fallbackSearchContext>>


\* the test of the mode that never finds instant mode
IsInstantNever(inp) == FALSE

\* handler.ts:94, the test of the mode
IsInstant(inp) == inp.thinkingMode = "instant"

\* the key test without the test of the model
KeyMissingAnyModel(native, key) == ~key

\* handler.ts:173, a model that is not native and no OpenRouter key
KeyMissing(native, key) == ~native /\ ~key

\* the compatibility test that never switches
NeedsSwitchNever(budget, m) == FALSE

\* handler.ts:161, a thinking budget and a model whose id contains neither
\* 'gemini-2.5' nor 'gemini-3'
NeedsSwitch(budget, m) == budget > 0 /\ ~m.has25 /\ ~m.has3

\* handler.ts:146-185, from the entry in routed mode to the call of the router
Setup ==
    /\ pc = "start"
    /\ ~IsInstant(input)
    /\ LET m1 == IF input.model.blank THEN Gemini25Flash ELSE input.model
           m2 == CASE input.thinkingMode = "deep" ->
                        IF input.preferredDeep.blank THEN Gemini3Pro ELSE input.preferredDeep
                   [] input.thinkingMode = "think" -> Gemini25Flash
                   [] OTHER -> m1
           budget == CASE input.thinkingMode = "deep" -> 8192
                       [] input.thinkingMode = "think" -> 2048
                       [] OTHER -> 0
           switch == NeedsSwitch(budget, m2)
           m3 == IF switch THEN Gemini25Flash ELSE m2
           native == isGoogleModel(m3)
           missingKey == KeyMissing(native, input.openRouterKey)
           out1 == IF switch THEN Append(out, OutEntry("thinkingSwitch", <<>>, 0)) ELSE out
       IN  /\ thinkingBudget' = budget
           /\ isNative' = native
           /\ modelSupportsSearch' = (native \/ m3.hasPerplexity)
           /\ model' = IF missingKey THEN Gemini25Flash ELSE m3
           /\ out' = IF missingKey THEN Append(out1, OutEntry("keyMissing", <<>>, 0)) ELSE out1
    /\ pc' = "route"
    /\ UNCHANGED <<input, env, ui, reading, aborted, finalResponseText, routingAction,
                   routingParameters, externalSearchContext, externalMetadata,
                   metadataPayload, fallbackSearchContext, currentAction,
                   currentPrompt, loopCount, generatedThisLoop, chunksSeen, batch,
                   result, wrapperVars, caller, request, hist>>

\* the failures of the router, of the memory store and of a stream
AgentErrors == {ErrServer, ErrOpenRouter, ErrAbort}

\* handler.ts:185-193, router.route resolves with action a; `use' is what
\* shouldUseExternalSearch(prompt, modelSupportsSearch, false) answers
RouteOk(a, use) ==
    /\ pc = "route"
    /\ routingAction' = a
    /\ routingParameters' = NoParameters
    /\ IF use
       THEN /\ out' = Append(out, OutEntry("marker", Tag("SEARCH", input.prompt), 0))
            /\ pc' = "pre_search"
       ELSE /\ out' = out
            /\ pc' = "memory"
    /\ UNCHANGED <<input, env, ui, reading, aborted, model, thinkingBudget, isNative,
                   modelSupportsSearch, finalResponseText, externalSearchContext,
                   externalMetadata, metadataPayload, fallbackSearchContext,
                   currentAction, currentPrompt, loopCount, generatedThisLoop,
                   chunksSeen, batch, result, wrapperVars, caller, request, hist>>

\* an awaited call of the dispatcher rejects with e outside the wrapper:
\* the catch block returns (handler.ts:431-438)
Throw(e) ==
    /\ pc' = "done"
    /\ result' = Caught(e, finalResponseText)
    /\ UNCHANGED <<input, env, ui, reading, aborted, model, thinkingBudget, isNative,
                   modelSupportsSearch, finalResponseText, out, routingAction,
                   routingParameters, externalSearchContext, externalMetadata,
                   metadataPayload, fallbackSearchContext, currentAction,
                   currentPrompt, loopCount, generatedThisLoop, chunksSeen, batch,
                   retries, attempt, calls, delays, notices, werror, caller,
                   request>>
    /\ hist' = [hist EXCEPT !.caught = [error |-> e, step |-> pc, loops |-> loopCount,
                                        streams |-> hist.streams]]

\* handler.ts:185, router.route rejects
RouteFail(e) ==
    /\ pc = "route"
    /\ Throw(e)
    /\ UNCHANGED wstate

\* the variables the pre-flight search leaves alone
preflightFrame == <<input, env, ui, reading, aborted, model, thinkingBudget, isNative,
                    modelSupportsSearch, finalResponseText, out, routingAction,
                    routingParameters, metadataPayload, fallbackSearchContext,
                    currentAction, currentPrompt, loopCount, generatedThisLoop,
                    chunksSeen, batch, result, wrapperVars, caller, request, hist>>

\* handler.ts:196-197, runMcpWebSearch resolves, with results or with none
PreSearchOk(hits) ==
    /\ pc = "pre_search"
    /\ pc' = IF hits THEN "pre_fetch" ELSE "memory"
    /\ UNCHANGED <<preflightFrame, externalSearchContext, externalMetadata>>

\* handler.ts:196 and 216-218, runMcpWebSearch rejects
PreSearchFail ==
    /\ pc = "pre_search"
    /\ pc' = "memory"
    /\ UNCHANGED <<preflightFrame, externalSearchContext, externalMetadata>>

\* handler.ts:198-214, fetchContentsForResults resolves with pages
PreFetchOk(pages) ==
    /\ pc = "pre_fetch"
    /\ externalMetadata' = [i \in 1..Len(pages) |-> MetaOf(pages[i])]
    /\ externalSearchContext' = <<[query |-> input.prompt, pages |-> pages]>>
    /\ pc' = "memory"
    /\ UNCHANGED preflightFrame

\* handler.ts:198 and 216-218, fetchContentsForResults rejects
PreFetchFail ==
    /\ pc = "pre_fetch"
    /\ pc' = "memory"
    /\ UNCHANGED <<preflightFrame, externalSearchContext, externalMetadata>>

\* handler.ts:221-249, memory.getContext resolves: the loop state is set up
\* and the loop is entered
MemoryOk ==
    /\ pc = "memory"
    /\ metadataPayload' = [def |-> Len(externalMetadata) > 0, items |-> externalMetadata]
    /\ fallbackSearchContext' = <<>>
    /\ currentAction' = routingAction
    /\ routingAction' = "read"
    /\ currentPrompt' = TextPrompt(input.prompt)
    /\ Iterate(finalResponseText, metadataPayload', TextPrompt(input.prompt))
    /\ hist' = [hist EXCEPT !.streams = IF pc' = "request" THEN @ + 1 ELSE @]
    /\ UNCHANGED <<input, env, ui, reading, aborted, model, thinkingBudget, isNative,
                   modelSupportsSearch, finalResponseText, out, routingParameters,
                   externalSearchContext, externalMetadata, generatedThisLoop,
                   chunksSeen, batch, caller>>

\* handler.ts:221, memory.getContext rejects
MemoryFail(e) ==
    /\ pc = "memory"
    /\ Throw(e)
    /\ UNCHANGED wstate


\* the variables no step of the loop body changes
loopFrame == <<input, env, ui, reading, aborted, model, thinkingBudget, isNative,
               modelSupportsSearch, routingAction, externalSearchContext,
               externalMetadata, caller>>

\* handler.ts:308-314, the wrapper has returned the stream to the dispatcher
AwaitReturned ==
    /\ pc = "request"
    /\ caller = "agent"
    /\ wstate = "returned"
    /\ wstate' = "idle"
    /\ attempt' = 0
    /\ calls' = <<>>
    /\ delays' = <<>>
    /\ notices' = <<>>
    /\ generatedThisLoop' = <<>>
    /\ chunksSeen' = 0
    /\ pc' = "stream"
    /\ hist' = [hist EXCEPT !.joinRanks = <<>>]
    /\ UNCHANGED <<loopFrame, finalResponseText, out, routingParameters,
                   metadataPayload, fallbackSearchContext, currentAction,
                   currentPrompt, loopCount, batch, result, retries, werror,
                   request>>

\* handler.ts:308 and 431-438, the wrapper has thrown into the dispatcher
AwaitThrown ==
    /\ pc = "request"
    /\ caller = "agent"
    /\ wstate = "thrown"
    /\ wstate' = "idle"
    /\ Throw(werror)

\* handler.ts:323-329, the grounding chunks of a stream chunk
WithGrounding(meta, c) ==
    IF isNative /\ c.grounded
    THEN [def |-> TRUE, items |-> meta.items \o c.grounding]
    ELSE meta

\* the text of the chunk in place of the accumulated text
AccumulateReplace(acc, c) == c.text

\* handler.ts:319-320, the text of a chunk appended to an accumulated text
Accumulate(acc, c) == acc \o c.text

\* the chunk loop does not look at the abort signal
AbortNeverObserved(sig) == FALSE

\* handler.ts:317, the test of the abort signal in the chunk loop
AbortObserved(sig) == sig

\* handler.ts:316-344 and what follows synchronously: the stream delivers
\* chunk c
ConsumeChunk(c, use) ==
    /\ pc = "stream"
    /\ chunksSeen < MaxChunks
    /\ c \in env.chunks
    /\ chunksSeen' = chunksSeen + 1
    /\ IF AbortObserved(aborted)
       THEN /\ generatedThisLoop' = generatedThisLoop
            /\ PostStream(generatedThisLoop, finalResponseText, metadataPayload, out, use,
                          [hist EXCEPT !.abortBreak = TRUE, !.abortText = finalResponseText])
       ELSE IF c.text = <<>>
       THEN UNCHANGED <<generatedThisLoop, finalResponseText, out, metadataPayload,
                        fallbackSearchContext, currentAction, currentPrompt,
                        routingParameters, loopCount, pc, batch, result, wrapperVars,
                        request, hist>>
       ELSE LET gen == Accumulate(generatedThisLoop, c)
                text == Accumulate(finalResponseText, c)
                outv == Append(out, OutEntry("chunk", c.text, 0))
                meta == WithGrounding(metadataPayload, c)
            IN  /\ generatedThisLoop' = gen
                /\ IF HasClosingTag(gen)
                   THEN PostStream(gen, text, meta, outv, use, hist)
                   ELSE /\ finalResponseText' = text
                        /\ out' = outv
                        /\ metadataPayload' = meta
                        /\ UNCHANGED <<fallbackSearchContext, currentAction,
                                       currentPrompt, routingParameters, loopCount,
                                       pc, batch, result, wrapperVars, request, hist>>
    /\ UNCHANGED loopFrame

\* handler.ts:316 and 346-424, the stream ends
StreamEnd(use) ==
    /\ pc = "stream"
    /\ PostStream(generatedThisLoop, finalResponseText, metadataPayload, out, use, hist)
    /\ UNCHANGED <<loopFrame, generatedThisLoop, chunksSeen>>

\* handler.ts:316 and 431-438, the stream fails while it is consumed
StreamError(e) ==
    /\ pc = "stream"
    /\ Throw(e)
    /\ UNCHANGED wstate

\* the promises of the batch that have resolved
Settled(b) == Cardinality({j \in DOMAIN b : b[j].status = "done"})

batchFrame == <<loopFrame, finalResponseText, out, routingParameters, metadataPayload,
                fallbackSearchContext, currentAction, currentPrompt, loopCount,
                generatedThisLoop, chunksSeen, result, wrapperVars, request, hist, pc>>

\* handler.ts:360-361, runMcpWebSearch of query i resolves and its fetch starts
SearchResolved(i, hits) ==
    /\ pc = "batch"
    /\ i \in DOMAIN batch
    /\ batch[i].status = "searching"
    /\ batch' = [batch EXCEPT ![i].status = "fetching", ![i].hits = hits]
    /\ UNCHANGED batchFrame

\* handler.ts:360 and 363-365, runMcpWebSearch of query i rejects
SearchRejected(i) ==
    /\ pc = "batch"
    /\ i \in DOMAIN batch
    /\ batch[i].status = "searching"
    /\ batch' = [batch EXCEPT ![i].status = "done", ![i].failed = TRUE, ![i].pages = <<>>,
                               ![i].rank = Settled(batch) + 1]
    /\ UNCHANGED batchFrame

\* handler.ts:361-362, fetchContentsForResults of query i resolves
FetchResolved(i, got) ==
    /\ pc = "batch"
    /\ i \in DOMAIN batch
    /\ batch[i].status = "fetching"
    /\ batch' = [batch EXCEPT
                   ![i].status = "done",
                   ![i].rank = Settled(batch) + 1,
                   ![i].pages = IF batch[i].hits /\ got
                                THEN <<PageFor(batch[i].query)>> ELSE <<>>]
    /\ UNCHANGED batchFrame

\* handler.ts:361 and 363-365, fetchContentsForResults of query i rejects
FetchRejected(i) ==
    /\ pc = "batch"
    /\ i \in DOMAIN batch
    /\ batch[i].status = "fetching"
    /\ batch' = [batch EXCEPT ![i].status = "done", ![i].failed = TRUE, ![i].pages = <<>>,
                               ![i].rank = Settled(batch) + 1]
    /\ UNCHANGED batchFrame

RECURSIVE AllMeta(_)
\* handler.ts:376-377, the metadata of the pages of the valid results, in order
AllMeta(valid) ==
    IF valid = <<>> THEN <<>>
    ELSE [i \in 1..Len(Head(valid).pages) |-> MetaOf(Head(valid).pages[i])]
         \o AllMeta(Tail(valid))

\* the filter of the results left out
ValidResultsUnfiltered(parallelResults) == parallelResults

\* handler.ts:369
ValidResults(parallelResults) == SelectSeq(parallelResults, LAMBDA r : r.pages # <<>>)

\* handler.ts:379-380, one block of the aggregated context per valid result
AggregatedContext(valid) ==
    [i \in 1..Len(valid) |-> [query |-> valid[i].query, pages |-> valid[i].pages]]

\* handler.ts:362 and 364, what the promises of the batch resolved with
Results(parallelResults) ==
    [i \in 1..Len(parallelResults) |->
        [query |-> parallelResults[i].query, pages |-> parallelResults[i].pages]]

\* the results in the order in which the promises resolved
CompletionOrder(b) == [k \in 1..Len(b) |-> b[CHOOSE i \in DOMAIN b : b[i].rank = k]]

\* handler.ts:357, Promise.all resolves with the results in the order of the
\* promises it was given, whatever the order in which they resolved
JoinOrder(b) == b

\* the join resumes as soon as one promise has resolved
AnySettled(b) == \E i \in DOMAIN b : b[i].status = "done"

\* handler.ts:357, Promise.all resolves when every promise has resolved
AllSettled(b) == \A i \in DOMAIN b : b[i].status = "done"

\* handler.ts:367-395 and what follows synchronously: every promise of the
\* batch has resolved and Promise.all resumes the dispatcher
BatchJoin ==
    /\ pc = "batch"
    /\ AllSettled(batch)
    /\ LET validResults == ValidResults(JoinOrder(batch))
           queries == [i \in 1..Len(batch) |-> batch[i].query]
       IN  IF validResults # <<>>
           THEN LET synthesisPrompt ==
                        SynthesisPrompt(input.prompt, queries, AggregatedContext(validResults))
                IN  /\ metadataPayload' =
                          [def |-> TRUE, items |-> metadataPayload.items \o AllMeta(validResults)]
                    /\ fallbackSearchContext' = AggregatedContext(validResults)
                    /\ currentPrompt' = synthesisPrompt
                    /\ currentAction' = "SIMPLE"
                    /\ Iterate(finalResponseText, metadataPayload', synthesisPrompt)
                    /\ UNCHANGED <<finalResponseText, out, routingParameters>>
           ELSE /\ Dispatch(generatedThisLoop, finalResponseText, metadataPayload, out)
                /\ UNCHANGED <<metadataPayload, fallbackSearchContext>>
    /\ hist' = [hist EXCEPT
                  !.joinRanks = [i \in 1..Len(batch) |-> batch[i].rank],
                  !.streams = IF pc' = "request" THEN @ + 1 ELSE @,
                  !.last = Last(loopCount, generatedThisLoop, TRUE, Results(batch),
                                fallbackSearchContext, metadataPayload,
                                IF ValidResults(batch) # <<>> THEN "BATCH"
                                ELSE TagDecision(generatedThisLoop, fallbackSearchContext).rule,
                                currentAction', currentPrompt')]
    /\ batch' = <<>>
    /\ UNCHANGED <<loopFrame, generatedThisLoop, chunksSeen>>

\* the user cancels: the abort signal is set
Abort ==
    /\ pc \notin {"done", "thrown", "ui"}
    /\ caller = "agent"
    /\ ~aborted
    /\ aborted' = TRUE
    /\ UNCHANGED <<input, env, ui, reading, pc, model, thinkingBudget, isNative,
                   modelSupportsSearch, finalResponseText, out, routingAction,
                   routingParameters, externalSearchContext, externalMetadata,
                   metadataPayload, fallbackSearchContext, currentAction,
                   currentPrompt, loopCount, generatedThisLoop, chunksSeen, batch,
                   result, wrapperVars, caller, request, hist>>


(***************************************************************************)
(* runAutonomousAgent, instant mode (handler.ts:93-144)                    *)
(***************************************************************************)
\* handler.ts:134-135, the request to the free provider: the prompt, the
\* notes about the attached images and the linearized files
InstantRequest(prompt, imageNote, fileContext) ==
    [kind |-> "instant", prompt |-> prompt, imageNote |-> imageNote,
     fileContext |-> fileContext]

RECURSIVE ScanFiles(_, _, _, _)
\* handler.ts:104-131, the loop over the files from file i up to the first
\* file whose text has to be read (pos) or to the end (pos = 0)
ScanFiles(files, i, imageNote, fileContext) ==
    IF i > Len(files)
    THEN [pos |-> 0, imageNote |-> imageNote, fileContext |-> fileContext]
    ELSE IF files[i] = "image"
    THEN ScanFiles(files, i + 1, Append(imageNote, i), fileContext)
    ELSE IF files[i] = "text"
    THEN [pos |-> i, imageNote |-> imageNote, fileContext |-> fileContext]
    ELSE ScanFiles(files, i + 1, imageNote, Append(fileContext, <<"attached", i>>))

\* the variables instant mode leaves alone
instantFrame == <<input, env, ui, aborted, model, thinkingBudget, isNative,
                  modelSupportsSearch, finalResponseText, routingAction,
                  routingParameters, externalSearchContext, externalMetadata,
                  metadataPayload, fallbackSearchContext, currentAction,
                  currentPrompt, loopCount, generatedThisLoop, chunksSeen, batch,
                  wrapperVars, caller>>

\* handler.ts:104-138, the files are scanned from file i on; the scan ends
\* in the read of a file or in the call of generateFreeCompletion
InstantScan(i, imageNote, fileContext) ==
    LET r == ScanFiles(input.files, i, imageNote, fileContext) IN
    /\ reading' = r.pos
    /\ request' = InstantRequest(input.prompt, r.imageNote, r.fileContext)
    /\ pc' = IF r.pos = 0 THEN "instant_request" ELSE "instant_read"
    /\ hist' = [hist EXCEPT !.free = IF r.pos = 0 THEN @ + 1 ELSE @]

\* handler.ts:94-138, the entry in instant mode
InstantStart ==
    /\ pc = "start"
    /\ IsInstant(input)
    /\ InstantScan(1, <<>>, <<>>)
    /\ UNCHANGED <<instantFrame, out, result>>

\* handler.ts:121-127, readTextFile settles: the content of the file or the
\* note of the failed read is appended, and the loop goes on
InstantFileRead(ok) ==
    /\ pc = "instant_read"
    /\ InstantScan(reading + 1, request.imageNote,
                   Append(request.fileContext,
                          <<IF ok THEN "content" ELSE "readError", reading>>))
    /\ UNCHANGED <<instantFrame, out, result>>

\* handler.ts:138-139, generateFreeCompletion resolves with text;
\* `streamed' is whether the provider has passed the text to onStreamChunk
InstantOk(text, streamed) ==
    /\ pc = "instant_request"
    /\ result' = Message(139, text, NoMetadata)
    /\ out' = IF streamed THEN Append(out, OutEntry("instant", text, 0)) ELSE out
    /\ pc' = "done"
    /\ UNCHANGED <<instantFrame, reading, request, hist>>

\* handler.ts:142, the error of instant mode
ErrInstant ==
    MkError("Error", 0, TRUE, FALSE, FALSE, FALSE)
        @@ ("text" :> "Instant mode service unavailable.")

\* the caught error is thrown again as it is
InstantCaughtRethrown(e) == e

\* handler.ts:140-143, the catch block of instant mode: what it throws
InstantCaught(e) == ErrInstant

\* handler.ts:138 and 140-143, generateFreeCompletion rejects with e, after
\* it has or has not passed a part of the text to onStreamChunk: the
\* function throws
InstantFail(e, streamed, part) ==
    /\ pc = "instant_request"
    /\ pc' = "thrown"
    /\ out' = IF streamed THEN Append(out, OutEntry("instant", part, 0)) ELSE out
    /\ hist' = [hist EXCEPT !.instant = [caught |-> e, thrown |-> InstantCaught(e)]]
    /\ UNCHANGED <<instantFrame, reading, request, result>>

(***************************************************************************)
(* SearchStatus (SearchStatus.tsx:28-140)                                  *)
(***************************************************************************)
\* SearchStatus.tsx:9, an element of the prop `sources'
Source(uri, title) == [uri |-> uri, title |-> title]

\* SearchStatus.tsx:80, a.findIndex(t => t.web.uri === uri)
FindIndex(a, uri) == Min({j \in 1..Len(a) : a[j].uri = uri})

RECURSIVE FirstOccurrences(_, _)
\* SearchStatus.tsx:80, the filter from index i on: an element is kept when
\* the first element with its uri is the element itself
FirstOccurrences(a, i) ==
    IF i > Len(a) THEN <<>>
    ELSE (IF FindIndex(a, a[i].uri) = i THEN <<a[i]>> ELSE <<>>)
         \o FirstOccurrences(a, i + 1)

\* the list as it is, nothing filtered
UniqueSourcesUnfiltered(sources) == sources

\* SearchStatus.tsx:80
UniqueSources(sources) == FirstOccurrences(sources, 1)

\* SearchStatus.tsx:81
DisplaySources(uniqueSources, isExpanded) ==
    IF isExpanded THEN uniqueSources
    ELSE SubSeq(uniqueSources, 1, Min({CollapsedCount, Len(uniqueSources)}))

\* SearchStatus.tsx:82
HasMore(uniqueSources) == Len(uniqueSources) > CollapsedCount

\* SearchStatus.tsx:51-139, the sources the component shows: none while a
\* search runs (51-75) and none without sources (77)
Shown(u) ==
    IF u.isSearching \/ u.sources = <<>> THEN <<>>
    ELSE DisplaySources(UniqueSources(u.sources), u.isExpanded)

\* SearchStatus.tsx:8, the prop `query': missing (undefined or null), a
\* string or an array of strings; a query text is a sequence of tokens
MissingQuery == [kind |-> "missing", items |-> <<>>]

StringQuery(t) == [kind |-> "string", items |-> <<t>>]

ArrayQuery(items) == [kind |-> "array", items |-> items]

\* SearchStatus.tsx:36-37, the list the effect rotates over
Queries(q) ==
    LET queries == IF q.kind = "array" THEN q.items
                   ELSE <<IF q.kind = "string" /\ q.items[1] # <<>>
                          THEN q.items[1] ELSE <<"info">>>>
    IN  IF Len(queries) = 0 THEN <<<<"info">>>> ELSE queries

\* SearchStatus.tsx:43
NextIndex(index, n) == (index + 1) % n

\* the cleanup clears nothing
CleanupNothing(timers, hasCleanup) == timers

\* SearchStatus.tsx:46, the cleanup the last run of the effect returned, if
\* it returned one: clearInterval of the interval that run has set
Cleanup(timers, hasCleanup) ==
    IF hasCleanup THEN SubSeq(timers, 1, Len(timers) - 1) ELSE timers

\* the component as it is after its first render (SearchStatus.tsx:28-31):
\* the state is initial and the effect has not run yet
Mounted(isSearching, query, sources) ==
    [isSearching |-> isSearching, query |-> query, sources |-> sources,
     isExpanded |-> FALSE, displayQuery |-> <<>>, mounted |-> TRUE,
     effect |-> "pending", timers |-> <<>>, hasCleanup |-> FALSE]

\* the component of a run that renders no SearchStatus
NoUi == [Mounted(FALSE, MissingQuery, <<>>) EXCEPT !.mounted = FALSE, !.effect = "done"]

uiFrame == <<input, env, reading, pc, aborted, model, thinkingBudget, isNative,
             modelSupportsSearch, finalResponseText, out, routingAction,
             routingParameters, externalSearchContext, externalMetadata,
             metadataPayload, fallbackSearchContext, currentAction,
             currentPrompt, loopCount, generatedThisLoop, chunksSeen, batch,
             result, wrapperVars, caller, request, hist>>

\* SearchStatus.tsx:91, the button of the header is clicked
ToggleExpanded ==
    /\ pc = "ui"
    /\ ui.mounted
    /\ ~ui.isSearching
    /\ ui.sources # <<>>
    /\ ui' = [ui EXCEPT !.isExpanded = ~ui.isExpanded]
    /\ UNCHANGED uiFrame

\* SearchStatus.tsx:127-134, the button "+n more" is clicked
ShowMore ==
    /\ pc = "ui"
    /\ ui.mounted
    /\ ~ui.isSearching
    /\ ui.sources # <<>>
    /\ ~ui.isExpanded
    /\ HasMore(UniqueSources(ui.sources))
    /\ ui' = [ui EXCEPT !.isExpanded = TRUE]
    /\ UNCHANGED uiFrame

\* the parent renders the component again with isSearching false; the
\* effect of the render before has run (React runs the effects of a render
\* before it renders the component again)
SearchFinished ==
    /\ pc = "ui"
    /\ ui.mounted
    /\ ui.effect = "done"
    /\ ui.isSearching
    /\ ui' = [ui EXCEPT !.isSearching = FALSE, !.effect = "pending"]
    /\ UNCHANGED uiFrame

\* the parent renders the component again with isSearching true and query q
SearchStarted(q) ==
    /\ pc = "ui"
    /\ ui.mounted
    /\ ui.effect = "done"
    /\ ~ui.isSearching
    /\ q \in env.queries
    /\ ui' = [ui EXCEPT !.isSearching = TRUE, !.query = q, !.effect = "pending"]
    /\ UNCHANGED uiFrame

\* the parent renders the searching component again with query q; an array
\* is another object than the one before, a string with the value of the
\* one before leaves the dependencies of the effect as they are (48)
QueryChanged(q) ==
    /\ pc = "ui"
    /\ ui.mounted
    /\ ui.effect = "done"
    /\ ui.isSearching
    /\ q \in env.queries
    /\ q.kind = "array" \/ q # ui.query
    /\ ui' = [ui EXCEPT !.query = q, !.effect = "pending"]
    /\ UNCHANGED uiFrame

\* the component is unmounted; the cleanup of its effect is run after that
Unmount ==
    /\ pc = "ui"
    /\ ui.mounted
    /\ ui.effect = "done"
    /\ ui' = [ui EXCEPT !.mounted = FALSE, !.effect = "pending"]
    /\ UNCHANGED uiFrame

\* SearchStatus.tsx:33-49, React runs the effect after a render whose
\* isSearching or query differs from those of the render before, and after
\* the first render: the cleanup of the last run, then the body; after the
\* unmount the cleanup only
RunEffect ==
    /\ pc = "ui"
    /\ ui.effect = "pending"
    /\ LET cleaned == Cleanup(ui.timers, ui.hasCleanup)
           queries == Queries(ui.query)
       IN  IF ~ui.mounted \/ ~ui.isSearching
           THEN ui' = [ui EXCEPT !.timers = cleaned, !.hasCleanup = FALSE,
                                 !.effect = "done"]
           ELSE ui' = [ui EXCEPT
                         !.displayQuery = queries[1],
                         !.timers = IF Len(queries) > 1
                                    THEN Append(cleaned, [queries |-> queries, index |-> 0])
                                    ELSE cleaned,
                         !.hasCleanup = Len(queries) > 1,
                         !.effect = "done"]
    /\ UNCHANGED uiFrame

\* SearchStatus.tsx:42-45, the interval k fires; the state of a component
\* that is unmounted is not updated
Tick(k) ==
    /\ pc = "ui"
    /\ k \in DOMAIN ui.timers
    /\ LET t == ui.timers[k]
           index == NextIndex(t.index, Len(t.queries))
       IN  ui' = [ui EXCEPT
                    !.timers[k].index = index,
                    !.displayQuery = IF ui.mounted THEN t.queries[index + 1] ELSE @]
    /\ UNCHANGED uiFrame

(***************************************************************************)
(* The runs that are explored                                              *)
(***************************************************************************)
Plain == Chunk(<<"x">>)
Blank == Chunk(<<" ">>)
EmptyChunk == Chunk(<<>>)
Grounded == GroundedChunk(<<"x">>, <<[uri |-> "u1", title |-> <<"g">>]>>)
Search1 == Chunk(Tag("SEARCH", <<"q1">>))
SearchPadded == Chunk(Tag("SEARCH", <<" ", "q2">>))
Search12 == Chunk(Tag("SEARCH", <<"q1">>) \o <<"x">> \o Tag("SEARCH", <<"q2">>))
SearchImage == Chunk(Tag("IMAGE", <<"i">>) \o Tag("SEARCH", <<"q1">>))
SearchDeep == Chunk(Tag("SEARCH", <<"q1">>) \o Tag("DEEP", <<"d">>))
Search12Deep == Chunk(Tag("SEARCH", <<"q1">>) \o Tag("SEARCH", <<"q2">>) \o Tag("DEEP", <<"d">>))
Deep == Chunk(Tag("DEEP", <<"d">>))
Image == Chunk(Tag("IMAGE", <<"i">>))
Project == Chunk(Tag("PROJECT", <<"p">>))
CanvasTrigger == Chunk(Tag("CANVAS_TRIGGER", <<"c">>))
CanvasTypo == Chunk(<<"<CANVAS_TRIGGER>", "c", "</CANVASTRIGGER>">>)
Canvas == Chunk(Tag("CANVAS", <<"c">>))
Study == Chunk(Tag("STUDY", <<"s">>))
ProjectImage == Chunk(Tag("PROJECT", <<"p">>) \o Tag("IMAGE", <<"i">>))
StudyCanvasProject == Chunk(Tag("STUDY", <<"s">>) \o Tag("CANVAS", <<"c">>) \o Tag("PROJECT", <<"p">>))
StudyCanvas == Chunk(Tag("STUDY", <<"s">>) \o Tag("CANVAS_TRIGGER", <<"c">>))
AllThenDeep == Chunk(Tag("IMAGE", <<"i">>) \o Tag("PROJECT", <<"p">>) \o Tag("CANVAS", <<"c">>)
                     \o Tag("STUDY", <<"s">>) \o Tag("DEEP", <<"d">>))
OpenImage == Chunk(<<"<IMAGE>", "i">>)
CloseImage == Chunk(<<"</IMAGE>">>)
StrayClose == Chunk(<<"x", "</STUDY>">>)

\* What the collaborators can answer in one run: the chunks the provider
\* can deliver (any of them at any point of any stream), the errors a
\* provider call can fail with, the classifications the router can return
\* and the answers of the pre-flight search heuristic for the user's prompt.
Env(chunks, errors, routes, preflight) ==
    [chunks |-> chunks, errors |-> errors, routes |-> routes, preflight |-> preflight,
     queries |-> {}]

\* the parent of SearchStatus: the values of the prop `query' it passes when
\* it renders the component again
UiEnv(queries) == [Env({}, {}, {}, {}) EXCEPT !.queries = queries]

\* a query text of i tokens
QueryText(i) == [k \in 1..i |-> "q"]

\* the values of the prop `query': missing, the empty string, a string, the
\* arrays of up to MaxQueries distinct texts, and an array of one text twice
QueryProps ==
    {MissingQuery, StringQuery(<<>>), StringQuery(QueryText(1)),
     ArrayQuery(<<QueryText(1), QueryText(1)>>)}
    \cup {ArrayQuery([i \in 1..n |-> QueryText(i)]) : n \in 0..MaxQueries}

Quiet(chunks) == Env(chunks, {}, {"SIMPLE"}, {FALSE})

Envs ==
    { Quiet({Plain, Blank, EmptyChunk, Grounded}),
      Quiet({Search1}),
      Quiet({Search12}),
      Quiet({SearchPadded}),
      Quiet({Search12Deep}),
      Quiet({SearchImage}),
      Quiet({SearchDeep}),
      Quiet({Search1, Image}),
      Quiet({Deep, Image, Project, Study}),
      Quiet({CanvasTrigger, CanvasTypo, Canvas}),
      Quiet({ProjectImage, StudyCanvasProject, StudyCanvas, AllThenDeep}),
      Quiet({OpenImage, CloseImage}),
      Quiet({StrayClose, Image}),
      Env({Image}, ProviderErrors, {"SIMPLE"}, {FALSE}),
      Env({Plain, Image}, {}, RouterActions, {FALSE}),
      Env({Search1}, {}, {"SIMPLE"}, {TRUE}) }

\* a run's input: routed mode, with or without a native model
MkInput(m, mode, deep, key, files) ==
    [prompt |-> UserPrompt, model |-> m, thinkingMode |-> mode,
     preferredDeep |-> deep, openRouterKey |-> key, files |-> files]

Inputs ==
    { MkInput(Gemini25Flash, "none", NoModel, FALSE, <<>>) }

\* the inputs of the runs that differ in the model, the key, the thinking
\* mode and the files
WideInputs ==
    { MkInput(Gpt4o, "none", NoModel, FALSE, <<>>),
      MkInput(Gpt4o, "none", NoModel, TRUE, <<>>),
      MkInput(Sonar, "none", NoModel, TRUE, <<>>),
      MkInput(NoModel, "none", NoModel, FALSE, <<>>),
      MkInput(Gemini3Pro, "none", NoModel, FALSE, <<>>),
      MkInput(Gemini15Pro, "think", NoModel, TRUE, <<>>),
      MkInput(Gpt4o, "think", NoModel, FALSE, <<>>),
      MkInput(Gemini25Flash, "deep", NoModel, FALSE, <<>>),
      MkInput(Gemini25Flash, "deep", Gpt4o, FALSE, <<>>),
      MkInput(Gemini25Flash, "deep", Gpt4o, TRUE, <<>>),
      MkInput(Gemini25Flash, "deep", OrGemini3, FALSE, <<>>),
      MkInput(Gemini25Flash, "deep", OrGemini3, TRUE, <<>>),
      MkInput(Gpt4o, "none", NoModel, FALSE, <<"image", "text", "binary">>),
      MkInput(Gpt4o, "none", NoModel, TRUE, <<"image", "text">>),
      MkInput(Gemini25Flash, "none", NoModel, FALSE, <<"image", "text", "binary">>),
      MkInput(Gemini25Flash, "instant", NoModel, FALSE, <<>>),
      MkInput(Gpt4o, "instant", NoModel, FALSE, <<"image", "text", "binary">>),
      MkInput(Gemini25Flash, "instant", NoModel, TRUE, <<"text", "text">>) }

\* what the collaborators answer in those runs
WideEnvs == { Quiet({Grounded, Image}) }

SourceUrls == <<"u1", "u2", "u3", "u4", "u5">>

\* the lists of sources SearchStatus is rendered with: the title of a
\* source tells its place in the list.  The component compares uris for
\* equality only (SearchStatus.tsx:80), so one list stands for all those
\* that differ from it by a renaming of the uris: the uris of a list occur
\* for the first time in the order of SourceUrls
SourceLists ==
    UNION { { [i \in 1..n |-> Source(SourceUrls[f[i]], i)] :
                f \in { g \in [1..n -> DOMAIN SourceUrls] :
                           \A i \in 1..n :
                              g[i] = 1 \/ \E j \in 1..(i - 1) : g[j] = g[i] - 1 } } :
            n \in 0..MaxSources }

\* what the properties remember of a run: whether the abort check of the
\* chunk loop has fired and with what accumulated text, the streaming
\* requests issued, the provider calls that failed, the last answer of
\* shouldUseExternalSearch in the loop (iteration, answer, queries) and the
\* last post-stream step, the error the catch block caught with the step
\* that raised it, the requests made to the free provider, and the order in
\* which the promises of the batch resolved whose join issued the request
\* that is awaited, and the error instant mode caught with the one it threw
NoHistory ==
    [abortBreak |-> FALSE, abortText |-> <<>>, streams |-> 0, failures |-> 0,
     gate |-> [iter |-> 0, use |-> FALSE, queries |-> <<>>], last |-> NoLast,
     caught |-> [error |-> NoError, step |-> "none", loops |-> 0, streams |-> 0],
     free |-> 0, joinRanks |-> <<>>,
     instant |-> [caught |-> NoError, thrown |-> NoError]]

\* the state of runAutonomousAgent at its entry (handler.ts:90-91, 166)
InitAgent ==
    /\ aborted = FALSE
    /\ model = input.model
    /\ thinkingBudget = 0
    /\ isNative = FALSE
    /\ modelSupportsSearch = FALSE
    /\ finalResponseText = <<>>
    /\ out = <<>>
    /\ routingAction = "none"
    /\ routingParameters = NoParameters
    /\ externalSearchContext = <<>>
    /\ externalMetadata = <<>>
    /\ metadataPayload = NoMetadata
    /\ fallbackSearchContext = <<>>
    /\ currentAction = "none"
    /\ currentPrompt = TextPrompt(<<>>)
    /\ loopCount = 0
    /\ generatedThisLoop = <<>>
    /\ chunksSeen = 0
    /\ batch = <<>>
    /\ result = NoResult
    /\ request = NoRequest
    /\ hist = NoHistory
    /\ reading = 0

\* a run of runAutonomousAgent, or SearchStatus rendered with a list of
\* sources
InitWith(envs, wide, lists) ==
    /\ \/ /\ input \in Inputs
          /\ env \in envs
          /\ pc = "start"
          /\ caller = "agent"
          /\ ui = NoUi
       \/ /\ input \in wide
          /\ env \in WideEnvs
          /\ pc = "start"
          /\ caller = "agent"
          /\ ui = NoUi
       \/ /\ input \in Inputs
          /\ env = UiEnv({})
          /\ pc = "ui"
          /\ caller = "ui"
          /\ \E b \in BOOLEAN, S \in lists : ui = Mounted(b, MissingQuery, S)
       \/ /\ input \in Inputs
          /\ env = UiEnv(QueryProps)
          /\ pc = "ui"
          /\ caller = "ui"
          /\ \E b \in BOOLEAN, q \in QueryProps : ui = Mounted(b, q, <<>>)
    /\ InitAgent
    /\ wstate = "idle"
    /\ retries = 0
    /\ attempt = 0
    /\ calls = <<>>
    /\ delays = <<>>
    /\ notices = <<>>
    /\ werror = NoError

Init == InitWith(Envs, WideInputs, SourceLists)

Next ==
    \/ Setup
    \/ \E a \in env.routes, use \in env.preflight : RouteOk(a, use)
    \/ \E e \in AgentErrors : RouteFail(e)
    \/ \E hits \in BOOLEAN : PreSearchOk(hits)
    \/ PreSearchFail
    \/ \E pages \in {<<>>, <<PageFor(input.prompt)>>} : PreFetchOk(pages)
    \/ PreFetchFail
    \/ MemoryOk
    \/ \E e \in AgentErrors : MemoryFail(e)
    \/ ProviderCallOk
    \/ \E e \in env.errors : ProviderCallFail(e)
    \/ DelayElapsed
    \/ AwaitReturned
    \/ AwaitThrown
    \/ \E c \in env.chunks, use \in BOOLEAN : ConsumeChunk(c, use)
    \/ \E use \in BOOLEAN : StreamEnd(use)
    \/ \E e \in AgentErrors : StreamError(e)
    \/ \E i \in 1..Len(batch), hits \in BOOLEAN : SearchResolved(i, hits)
    \/ \E i \in 1..Len(batch) : SearchRejected(i)
    \/ \E i \in 1..Len(batch), got \in BOOLEAN : FetchResolved(i, got)
    \/ \E i \in 1..Len(batch) : FetchRejected(i)
    \/ BatchJoin
    \/ Abort
    \/ InstantStart
    \/ \E ok \in BOOLEAN : InstantFileRead(ok)
    \/ \E c \in env.chunks, streamed \in BOOLEAN : InstantOk(c.text, streamed)
    \/ \E e \in ProviderErrors, c \in env.chunks, streamed \in BOOLEAN :
          InstantFail(e, streamed, c.text)
    \/ ToggleExpanded
    \/ ShowMore
    \/ SearchFinished
    \/ \E q \in env.queries : SearchStarted(q)
    \/ \E q \in env.queries : QueryChanged(q)
    \/ Unmount
    \/ RunEffect
    \/ \E k \in DOMAIN ui.timers : Tick(k)

Spec == Init /\ [][Next]_vars

\* every awaited call settles, every stream ends and every timeout fires:
\* a step is taken whenever one is enabled
\* the runs whose termination is checked
LiveEnvs ==
    { Quiet({Plain, EmptyChunk}),
      Quiet({Image}),
      Env({Plain}, {ErrStatus429, ErrServer}, {"SIMPLE"}, {FALSE}),
      Env({Search1}, {}, {"SIMPLE"}, {TRUE}) }

LiveInputs ==
    { MkInput(Gpt4o, "none", NoModel, FALSE, <<>>),
      MkInput(Gpt4o, "instant", NoModel, FALSE, <<"image", "text", "binary">>) }

\* the lists of one source repeated, and a list of five distinct sources
LiveLists ==
    { S \in SourceLists : \A i \in 1..Len(S) : S[i].uri = "u1" }
    \cup { [i \in 1..5 |-> Source(<<"u1", "u2", "u3", "u4", "u5">>[i], i)] }

InitLive == InitWith(LiveEnvs, LiveInputs, LiveLists)

SpecLive == InitLive /\ [][Next]_vars /\ WF_vars(Next)

(***************************************************************************)
(* The wrapper alone, called with any retry count up to MaxRetriesArg      *)
(***************************************************************************)
InitRetry ==
    /\ input = MkInput(Gemini25Flash, "none", NoModel, FALSE, <<>>)
    /\ env = Env({}, ProviderErrors, {}, {})
    /\ pc = "direct"
    /\ caller = "direct"
    /\ ui = NoUi
    /\ InitAgent
    /\ retries \in 0..MaxRetriesArg
    /\ attempt = 0
    /\ calls = <<>>
    /\ delays = <<>>
    /\ notices = <<>>
    /\ wstate = "calling"
    /\ werror = NoError

NextRetry ==
    \/ ProviderCallOk
    \/ \E e \in ProviderErrors : ProviderCallFail(e)
    \/ DelayElapsed

SpecRetry == InitRetry /\ [][NextRetry]_vars

Done == pc = "done"


(***************************************************************************)
(* Properties                                                              *)
(***************************************************************************)
\* a complete control tag <T>...</T> occurs in the text
HasTag(text, t) ==
    \E i, j \in 1..Len(text) : i < j /\ text[i] = Open(t) /\ text[j] = Close(t)

HasCanvasTag(text) ==
    \/ HasTag(text, "CANVAS_TRIGGER")
    \/ HasTag(text, "CANVAS")
    \/ \E i, j \in 1..Len(text) :
          i < j /\ text[i] = "<CANVAS_TRIGGER>" /\ text[j] = "</CANVASTRIGGER>"

HasControlTag(text) ==
    \/ \E t \in TagNames : HasTag(text, t)
    \/ HasCanvasTag(text)

\* the last post-stream step ended in a transition (a `continue')
LastTransition == hist.last.rule # "none"

\* C1: in routed mode the loop body is entered at most 6 times (one
\* streaming request per entry), and when the 6th iteration ends in a
\* transition the function returns the accumulated text with the metadata
\* at line 429 instead of starting a 7th iteration.
C1_LoopBound ==
    /\ loopCount <= 6
    /\ hist.streams <= 6
    /\ hist.streams = loopCount
    /\ (hist.last.iter = 6 /\ LastTransition) =>
          /\ pc = "done"
          /\ result = Message(429, finalResponseText, metadataPayload)

C1_Witness ==
    /\ pc = "done"
    /\ ~aborted
    /\ hist.last.iter = 6
    /\ LastTransition
    /\ hist.streams = 6
    /\ result.line = 429

\* C2: as long as no complete control tag has appeared in the streamed
\* output, at most one iteration has started and at most one streaming
\* request has been issued; a run that consumed a stream without a control
\* tag and did not fail returns after exactly one iteration, through the
\* finalization of line 424, with the accumulated text.
C2_NoTagOneIteration ==
    ~HasControlTag(finalResponseText) =>
        /\ loopCount <= 1
        /\ hist.streams <= 1
        /\ (pc = "done" /\ hist.streams >= 1 /\ result.line \notin {433, 437}) =>
              /\ loopCount = 1
              /\ hist.streams = 1
              /\ result = Message(424, finalResponseText, metadataPayload)

C2_Witness ==
    /\ pc = "done"
    /\ result.line = 424
    /\ loopCount = 1
    /\ finalResponseText # <<>>
    /\ HasClosingTag(finalResponseText)
    /\ ~HasControlTag(finalResponseText)


\* the text of the provider chunks forwarded to onStreamChunk, in order
RECURSIVE Forwarded(_)
Forwarded(log) ==
    IF log = <<>> THEN <<>>
    ELSE (IF Head(log).kind = "chunk" THEN Head(log).text ELSE <<>>) \o Forwarded(Tail(log))

\* the run has returned through a cancellation path: the abort check of the
\* chunk loop has fired, or an AbortError was caught
CancelledReturn == pc = "done" /\ (hist.abortBreak \/ result.line = 433)

\* C3 as stated: on both cancellation paths the returned text is exactly
\* the accumulated text, also when nothing has been accumulated, and never
\* an error message.
C3_Original ==
    CancelledReturn => (result.line # 437 /\ result.text = finalResponseText)

\* C3 as amended: on both cancellation paths the returned message is never
\* an error message and its text is the accumulated text (the chunk that
\* arrives with the cancellation is not appended), except that a caught
\* AbortError with nothing accumulated returns the placeholder
\* "(Generation stopped by user)".
C3_CancelPartial ==
    CancelledReturn =>
        /\ result.line # 437
        /\ result.text = IF result.line = 433 /\ finalResponseText = <<>>
                         THEN Placeholder ELSE finalResponseText
        /\ finalResponseText = Forwarded(out)
        /\ hist.abortBreak => finalResponseText = hist.abortText

\* an AbortError thrown by a stream (the wrapper had returned: calls is
\* reset) before any text was accumulated, after the signal was set
C3_Witness ==
    /\ pc = "done"
    /\ aborted
    /\ result.line = 433
    /\ hist.streams >= 1
    /\ calls = <<>>
    /\ finalResponseText = <<>>
    /\ result.text = Placeholder

\* some query of the batch returned at least one page
AnyPages(results) == \E i \in 1..Len(results) : results[i].pages # <<>>

\* the rule the text of an iteration selects, in the order of the claim:
\* search batch that returned content, DEEP, single SEARCH, IMAGE, PROJECT,
\* CANVAS family, STUDY
ExpectedRule(l) ==
    IF l.ran /\ AnyPages(l.results) THEN "BATCH"
    ELSE IF HasTag(l.gen, "DEEP") THEN "DEEP"
    ELSE IF Len(SearchMatches(l.gen)) = 1 THEN "SEARCH"
    ELSE IF HasTag(l.gen, "IMAGE") THEN "IMAGE"
    ELSE IF HasTag(l.gen, "PROJECT") THEN "PROJECT"
    ELSE IF HasCanvasTag(l.gen) THEN "CANVAS"
    ELSE IF HasTag(l.gen, "STUDY") THEN "STUDY"
    ELSE "none"

\* the action and the prompt a rule sets: the content of its first tag
ExpectedAction(rule) ==
    CASE rule = "DEEP" -> "DEEP_SEARCH"
      [] rule = "BATCH" -> "SIMPLE"
      [] OTHER -> rule

ExpectedContent(rule, gen) ==
    CASE rule = "DEEP" -> Match(gen, "<DEEP>", "</DEEP>").g1
      [] rule = "SEARCH" -> SearchMatches(gen)[1]
      [] rule = "IMAGE" -> Match(gen, "<IMAGE>", "</IMAGE>").g1
      [] rule = "PROJECT" -> Match(gen, "<PROJECT>", "</PROJECT>").g1
      [] rule = "CANVAS" -> CanvasMatch(gen).g1
      [] rule = "STUDY" -> Match(gen, "<STUDY>", "</STUDY>").g1

\* the last post-stream step took the rule the text selects
TookExpectedRule(l) ==
    LET rule == ExpectedRule(l) IN
    /\ l.rule = rule
    /\ rule \notin {"none", "BATCH"} =>
          /\ l.action = ExpectedAction(rule)
          /\ l.prompt = TextPrompt(ExpectedContent(rule, l.gen))

\* the rules that have a tag in a text
RulesTagged(gen) ==
    {r \in {"DEEP", "SEARCH", "IMAGE", "PROJECT", "CANVAS", "STUDY"} :
        CASE r = "SEARCH" -> SearchMatches(gen) # <<>>
          [] r = "CANVAS" -> HasCanvasTag(gen)
          [] OTHER -> HasTag(gen, r)}

\* C4: when the text of an iteration has tags of more than one rule, the
\* transition taken after a stream is the first satisfied rule in
\* the order batch with content > DEEP > single SEARCH > IMAGE > PROJECT >
\* CANVAS family > STUDY, with the action of the winning rule and the
\* content of the winning tag as the prompt; no rule: finalization.
C4_Precedence ==
    (hist.last.iter >= 1 /\ Cardinality(RulesTagged(hist.last.gen)) >= 2) =>
        TookExpectedRule(hist.last)

\* C4 restricted to the steps that start without a search context left by
\* an earlier iteration: there the order holds
C4_PrecedenceFresh ==
    (hist.last.iter >= 1 /\ Cardinality(RulesTagged(hist.last.gen)) >= 2
        /\ hist.last.fallbackBefore = <<>>) => TookExpectedRule(hist.last)

\* C5: an iteration with exactly one SEARCH tag and no DEEP tag whose
\* search batch did not run or returned no content switches to the SEARCH
\* action with the tag's content as the prompt, whatever earlier iterations
\* did.
C5_SingleSearch ==
    LET l == hist.last IN
    (/\ l.iter >= 1
     /\ Len(SearchMatches(l.gen)) = 1
     /\ ~HasTag(l.gen, "DEEP")
     /\ ~(l.ran /\ AnyPages(l.results))) =>
        /\ l.rule = "SEARCH"
        /\ l.action = "SEARCH"
        /\ l.prompt = TextPrompt(SearchMatches(l.gen)[1])


\* the queries of the SEARCH tags of a text, trimmed
QueriesOf(gen) == [i \in 1..Len(SearchMatches(gen)) |-> Trim(SearchMatches(gen)[i])]

C7_Step ==
    /\ (pc = "batch" /\ pc' = "batch") =>
          \A i \in 1..Len(batch) :
              batch'[i] # batch[i] =>
                 /\ \A j \in 1..Len(batch) : j # i => batch'[j] = batch[j]
                 /\ result' = result
                 /\ batch'[i].failed => (batch'[i].status = "done" /\ batch'[i].pages = <<>>)
    /\ (pc = "batch" /\ pc' # "batch") =>
          IF AnyPages(batch)
          THEN /\ currentAction' = "SIMPLE"
               /\ currentPrompt'.kind = "synthesis"
               /\ currentPrompt'.context = fallbackSearchContext'
               /\ fallbackSearchContext' # <<>>
               /\ hist'.last.rule = "BATCH"
               /\ pc' = "request" \/ (pc' = "done" /\ result'.line = 429)
          ELSE /\ fallbackSearchContext' = fallbackSearchContext
               /\ metadataPayload' = metadataPayload
               /\ currentPrompt' # currentPrompt => currentPrompt'.kind = "text"
               /\ hist'.last.rule = TagDecision(generatedThisLoop, fallbackSearchContext).rule
               /\ hist'.last.rule = "none" => (pc' = "done" /\ result'.line = 424)

\* C7: in a search batch a failed query contributes an empty result set
\* for that query only and aborts neither the batch nor the turn; the
\* synthesis follow-up happens if and only if some query returned a page;
\* otherwise the fallback context and the metadata are unchanged and the
\* remaining tag rules and the finalization decide.
C7_PartialFailure == [][C7_Step]_vars

\* a query of the batch has failed, another has returned a page, and the
\* batch is still being awaited
C7_Witness ==
    /\ pc = "batch"
    /\ \E i, j \in 1..Len(batch) :
          /\ batch[i].failed
          /\ batch[j].status = "done"
          /\ batch[j].pages # <<>>

\* a rate-limit failure, as the claims describe it
RateLimit(e) == e.status = 429 \/ (e.hasMsg /\ (e.m429 \/ e.mQuota))

\* C8: called by the dispatcher (retry count 3) the wrapper calls the
\* provider at most 4 times; a rate-limit failure of an attempt that is not
\* the last is followed by a delay and another call; the stream returned is
\* that of the first attempt that does not fail; four rate-limit failures
\* end the invocation in a thrown error.
C8_RetryBound ==
    caller = "agent" =>
        /\ Len(calls) <= 4
        /\ pc = "request" => retries = 3
        /\ \A i \in 1..(Len(calls) - 1) : RateLimit(calls[i])
        /\ wstate = "returned" => (calls # <<>> /\ calls[Len(calls)] = NoError)
        /\ (calls # <<>> /\ RateLimit(calls[Len(calls)]) /\ Len(calls) < 4) =>
              wstate \in {"delaying", "calling"}
        /\ (Len(calls) = 4 /\ RateLimit(calls[4])) =>
              \/ (wstate = "thrown" /\ werror = calls[4])
              \/ (pc = "done" /\ result.line = 437)

C8_Witness ==
    /\ caller = "agent"
    /\ wstate = "thrown"
    /\ Len(calls) = 4
    /\ \A i \in 1..4 : RateLimit(calls[i])

\* C9: the wait before retry number k is 2^(k-1) * 2000 + 1000 ms, that is
\* 3000, 5000, 9000 for k = 1..3, strictly increasing within an invocation.
C9_Delays ==
    /\ Len(delays) <= Len(calls)
    /\ \A k \in 1..Len(delays) :
          /\ delays[k] = Pow2(k - 1) * 2000 + 1000
          /\ k = 1 => delays[k] = 3000
          /\ k = 2 => delays[k] = 5000
          /\ k = 3 => delays[k] = 9000
          /\ k > 1 => delays[k] > delays[k - 1]

C9_Witness ==
    /\ Len(delays) = 3
    /\ wstate = "delaying"

\* one step of the wrapper
C10_Step ==
    /\ (wstate = "calling" /\ Len(calls') = Len(calls) + 1
          /\ calls'[Len(calls')] # NoError /\ ~RateLimit(calls'[Len(calls')])) =>
          /\ wstate' = "thrown"
          /\ werror' = calls'[Len(calls')]
          /\ notices' = notices
          /\ delays' = delays
          /\ out' = out
    /\ wstate = "thrown" =>
          /\ calls' = calls
          /\ notices' = notices
          /\ delays' = delays

\* C10: a provider failure that is not a rate-limit failure propagates out
\* of the wrapper at once: no provider call, no delay and no retry notice
\* follow it, also after one or more rate-limit retries.
C10_NoRetryOnOtherErrors == [][C10_Step]_vars

C10_Witness ==
    /\ wstate = "thrown"
    /\ Len(notices) >= 1
    /\ werror = calls[Len(calls)]
    /\ ~RateLimit(werror)

\* C11: in routed mode an exception raised in the dispatcher that is not a
\* cancellation (router, memory, provider request, stream, exhausted
\* retries) ends the run in one returned message whose text is the error
\* string "An error occurred: ..."; nothing is thrown out of the function,
\* no provider call is pending and no iteration or stream is started after
\* the failed step.
C11_ErrorConversion ==
    LET c == hist.caught IN
    /\ (c.error # NoError /\ c.error.name # "AbortError") =>
          /\ pc = "done"
          /\ result.line = 437
          /\ result.meta = NoMetadata
          /\ Len(result.text) = 2
          /\ result.text[1] = "An error occurred: "
          /\ result.text[2] = IF c.error.hasMsg /\ c.error.mOpenRouter
                              THEN "message" ELSE "friendly"
          /\ c.step \in {"route", "memory", "request", "stream"}
          /\ loopCount = c.loops
          /\ hist.streams = c.streams
          /\ wstate = "idle"
    /\ result.line = 437 => (c.error # NoError /\ c.error.name # "AbortError")
    /\ pc # "done" => result = NoResult
    /\ pc = "thrown" => IsInstant(input)

\* the provider request of a later iteration has failed four times with a
\* rate-limit error and the error was converted
C11_Witness ==
    /\ pc = "done"
    /\ result.line = 437
    /\ hist.caught.step = "request"
    /\ Len(calls) = 4
    /\ loopCount >= 2

\* the model lines 146-164 select for an input, before the key is looked at
SelectedModel(inp) ==
    LET thinking == inp.thinkingMode \in {"deep", "think"}
        m == CASE inp.thinkingMode = "deep" ->
                    IF inp.preferredDeep.blank THEN Gemini3Pro ELSE inp.preferredDeep
               [] inp.thinkingMode = "think" -> Gemini25Flash
               [] OTHER -> IF inp.model.blank THEN Gemini25Flash ELSE inp.model
    IN  IF thinking /\ ~m.has25 /\ ~m.has3 THEN Gemini25Flash ELSE m

\* a model that is not a native one
NonNative(m) == ~m.blank /\ ~m.startsGemini /\ ~m.startsVeo /\ ~m.hasGoogle

\* the entries of a kind in the log of the output callback
CountKind(o, kind) == Cardinality({i \in 1..Len(o) : o[i].kind = kind})

\* C12: in a routed run with a selected model that is not native and
\* without OpenRouter key, the model of every provider request is
\* gemini-2.5-flash and one fallback notice is emitted, before the router
\* is called and before any marker, chunk or retry notice; with a key or
\* with a native model no fallback notice is emitted and the model stays
\* the selected one.
C12_KeyFallback ==
    (~IsInstant(input) /\ pc \notin {"start", "ui", "direct"}) =>
        LET sel == SelectedModel(input)
            missing == NonNative(sel) /\ ~input.openRouterKey
        IN  /\ IF missing
               THEN /\ model = Gemini25Flash
                    /\ CountKind(out, "keyMissing") = 1
                    /\ \A i \in 1..Len(out) : out[i].kind = "keyMissing" =>
                          \A j \in 1..(i - 1) : out[j].kind = "thinkingSwitch"
               ELSE /\ model = sel
                    /\ CountKind(out, "keyMissing") = 0
            /\ request # NoRequest => request.model = model

\* the second streaming request of a run that has fallen back
C12_Witness ==
    /\ input.model = Gpt4o
    /\ ~input.openRouterKey
    /\ input.thinkingMode = "none"
    /\ pc = "stream"
    /\ loopCount = 2
    /\ request.model = Gemini25Flash
    /\ CountKind(out, "keyMissing") = 1

\* one step of the dispatcher, as to the current action and prompt
C13_Step ==
    /\ (pc = "memory" /\ pc' # "memory" /\ result'.line \notin {433, 437}) =>
          /\ routingAction \in RouterActions
          /\ currentAction' = routingAction
          /\ currentPrompt' = TextPrompt(input.prompt)
    /\ (pc # "memory" /\ currentAction' # currentAction) =>
          /\ pc \in {"stream", "batch"}
          /\ HasControlTag(generatedThisLoop')
          /\ hist'.last.iter = loopCount
          /\ hist'.last.gen = generatedThisLoop'
    /\ (pc \in {"stream", "batch"} /\ ~HasControlTag(generatedThisLoop')) =>
          /\ currentAction' = currentAction
          /\ currentPrompt' = currentPrompt

\* C13: the current action is the router's classification when the loop
\* starts; afterwards it changes only in the post-stream step of an
\* iteration whose own text has a complete control tag, and an iteration
\* without such a tag changes neither the action nor the prompt.
C13_ActionChanges == [][C13_Step]_vars

\* the IMAGE tag of the first iteration has changed the action
C13_Witness ==
    /\ pc = "request"
    /\ loopCount = 2
    /\ hist.last.rule = "IMAGE"
    /\ currentAction = "IMAGE"
    /\ currentPrompt = TextPrompt(<<"i">>)

\* a routed run at its entry
RoutedEntry == pc = "start" /\ ~IsInstant(input)

\* how a routed run that has returned has left the loop
ExitOfRun ==
    (pc = "done" /\ ~IsInstant(input)) =>
        /\ result.line \in {424, 429, 433, 437}
        /\ result.line = 429 => (loopCount = 6 \/ aborted)
        /\ result.line = 424 =>
              (hist.last.iter = loopCount /\ hist.last.rule = "none"
               /\ TagDecision(hist.last.gen, fallbackSearchContext).rule = "none")
        /\ result.line \in {433, 437} => hist.caught.error # NoError

\* C14: when every external call settles and every stream ends, a routed
\* run returns, with one message, and it has left the loop by the bound
\* of 6 iterations, by the cancellation, by a text without applicable
\* control tag, or through the catch block.
C14_Termination ==
    /\ RoutedEntry ~> (pc = "done" /\ result # NoResult)
    /\ [](pc # "done" => result = NoResult)
    /\ []ExitOfRun
    /\ [][result # NoResult => result' = result]_vars

\* a run that has left the loop by the bound, without cancellation
C14_Witness ==
    /\ pc = "done"
    /\ ~IsInstant(input)
    /\ result.line = 429
    /\ loopCount = 6
    /\ ~aborted

\* a run in instant mode
InstantRun == input.thinkingMode = "instant" /\ pc # "ui"

\* C15: a run in instant mode makes one completion request to the free
\* provider and nothing else: the router, the memory store, the search
\* pipeline, the retry wrapper and the loop are not entered, no control tag
\* of the response is acted on, and the text of the returned message is
\* the text the request returned.
C15_InstantMode ==
    InstantRun =>
        /\ pc \in {"start", "instant_read", "instant_request", "done", "thrown"}
        /\ hist.free = IF pc \in {"start", "instant_read"} THEN 0 ELSE 1
        /\ routingAction = "none"
        /\ currentAction = "none"
        /\ loopCount = 0
        /\ hist.streams = 0
        /\ wstate = "idle"
        /\ calls = <<>>
        /\ batch = <<>>
        /\ externalSearchContext = <<>>
        /\ hist.last = NoLast
        /\ hist.gate.iter = 0
        /\ \A i \in 1..Len(out) : out[i].kind = "instant"
        /\ pc = "done" =>
              /\ result.line = 139
              /\ result.text \in {c.text : c \in env.chunks}
              /\ \A i \in 1..Len(out) : out[i].text = result.text
        /\ pc # "done" => result = NoResult

\* an instant run with files has returned a text that has a control tag
C15_Witness ==
    /\ InstantRun
    /\ pc = "done"
    /\ input.files # <<>>
    /\ HasTag(result.text, "IMAGE")
    /\ hist.free = 1

\* the pre-flight search in a state
PreflightInv ==
    /\ CountKind(out, "marker") <= 1
    /\ \A i \in 1..Len(out) : out[i].kind = "marker" =>
          /\ out[i].text = Tag("SEARCH", input.prompt)
          /\ \A j \in 1..(i - 1) : out[j].kind \in {"thinkingSwitch", "keyMissing"}
    /\ pc \in {"pre_search", "pre_fetch"} =>
          /\ loopCount = 0
          /\ out # <<>>
          /\ out[Len(out)].kind = "marker"
    /\ externalSearchContext # <<>> =>
          /\ CountKind(out, "marker") = 1
          /\ Len(externalSearchContext) = 1
          /\ externalSearchContext[1].query = input.prompt
    /\ pc \in {"request", "stream", "batch"} =>
          request.external = externalSearchContext

\* the pre-flight search in a step: the search context is assigned by the
\* fetch of the pre-flight search and by nothing else
PreflightStep ==
    /\ externalSearchContext' # externalSearchContext => (pc = "pre_fetch" /\ loopCount = 0)
    /\ pc' \in {"pre_search", "pre_fetch"} => pc \in {"route", "pre_search", "pre_fetch"}
    /\ (pc = "route" /\ pc' = "pre_search") =>
          out' = Append(out, OutEntry("marker", Tag("SEARCH", input.prompt), 0))

\* C16: the pre-flight search runs at most once and before the first
\* iteration; its marker is emitted before the search is started; the
\* search context it produced is part of the request of every iteration
\* and is never assigned again.
C16_Preflight == []PreflightInv /\ [][PreflightStep]_vars

\* the request of the second iteration carries the pre-flight context,
\* after a search batch of the first iteration has returned pages
C16_Witness ==
    /\ pc = "request"
    /\ loopCount = 2
    /\ externalSearchContext # <<>>
    /\ externalSearchContext[1].pages # <<>>
    /\ fallbackSearchContext # <<>>
    /\ request.external = externalSearchContext

\* the uris of a list of sources
UrisOf(a) == {a[i].uri : i \in DOMAIN a}

\* the position in the prop `sources' of an element the component shows
PosOf(u, k) == CHOOSE i \in DOMAIN u.sources : u.sources[i] = Shown(u)[k]

\* what the component shows whatever its state: no uri twice, of a uri its
\* first occurrence, the occurrences in the order of the prop, and no uri
\* left out before a uri that is shown
ShownDeduplicated ==
    LET s == Shown(ui)
        src == ui.sources
    IN  /\ \A k, l \in DOMAIN s : k # l => s[k].uri # s[l].uri
        /\ \A k \in DOMAIN s :
              /\ \E i \in DOMAIN src : src[i] = s[k]
              /\ \A j \in 1..(PosOf(ui, k) - 1) :
                    /\ src[j].uri # s[k].uri
                    /\ src[j].uri \in UrisOf(s)
        /\ \A k, l \in DOMAIN s : k < l => PosOf(ui, k) < PosOf(ui, l)

\* how many distinct uris the component shows
ShownCount ==
    LET n == Cardinality(UrisOf(ui.sources))
    IN  Len(Shown(ui)) = IF ui.isSearching THEN 0
                         ELSE IF ui.isExpanded \/ n <= CollapsedCount THEN n
                         ELSE CollapsedCount

\* the list of the dispatcher starts with the pages of the pre-flight search
MetadataStartsWithPreflight ==
    pc \in {"request", "stream", "batch"} =>
       /\ Len(metadataPayload.items) >= Len(externalMetadata)
       /\ SubSeq(metadataPayload.items, 1, Len(externalMetadata)) = externalMetadata

\* a step of the dispatcher leaves the elements of its list in place and
\* adds the grounding chunks of the consumed chunk or the pages of the batch
MetadataAppendOnly ==
    LET a == metadataPayload.items
        b == metadataPayload'.items
    IN  /\ Len(b) >= Len(a)
        /\ SubSeq(b, 1, Len(a)) = a
        /\ (b # a /\ pc = "stream") =>
              \E c \in env.chunks : c.grounded /\ b = a \o c.grounding
        /\ (b # a /\ pc = "batch") =>
              b = a \o AllMeta(ValidResults(batch))

\* C17 as stated: the component shows every distinct uri of its sources
\* exactly once
C17_Original ==
    (pc = "ui" /\ ~ui.isSearching) =>
       /\ UrisOf(Shown(ui)) = UrisOf(ui.sources)
       /\ Len(Shown(ui)) = Cardinality(UrisOf(ui.sources))

\* C17: the list of the dispatcher is append-only during a run (the pages
\* of the pre-flight search, then grounding chunks and batch pages in the
\* order gathered, duplicates kept); SearchStatus shows no uri twice, keeps
\* the first occurrence and the order, and shows every distinct uri when it
\* is expanded or when there are at most four, the first four otherwise,
\* and none while the search runs.
C17_UiDeduplicates ==
    /\ [](pc = "ui" => (ShownDeduplicated /\ ShownCount))
    /\ []MetadataStartsWithPreflight
    /\ [][MetadataAppendOnly]_vars

\* the expanded component shows five sources of which two have the uri of
\* an earlier one
C17_Witness ==
    /\ pc = "ui"
    /\ ui.isExpanded
    /\ ~ui.isSearching
    /\ Len(ui.sources) = 5
    /\ Cardinality(UrisOf(ui.sources)) = 3
    /\ ui.sources[1].uri = ui.sources[3].uri
    /\ Len(Shown(ui)) = 3

\* the list of the dispatcher holds the same uri twice
DispatcherKeepsDuplicates ==
    /\ pc = "done"
    /\ result.line = 424
    /\ \E i, j \in DOMAIN result.meta.items :
          i < j /\ result.meta.items[i].uri = result.meta.items[j].uri

\* a run of the dispatcher that takes the routed path
RoutedRun == input.thinkingMode # "instant" /\ pc \notin {"ui", "direct"}

\* the accumulated text changes in the step that consumes a chunk and in no
\* other: the text of the chunk is appended once and forwarded once
ChunkStep ==
    /\ (pc = "stream" /\ chunksSeen' = chunksSeen + 1 /\ ~aborted) =>
          \E c \in env.chunks :
             /\ finalResponseText' = finalResponseText \o c.text
             /\ Forwarded(out') = Forwarded(out) \o c.text
             /\ CountKind(out', "chunk") =
                   CountKind(out, "chunk") + (IF c.text = <<>> THEN 0 ELSE 1)
    /\ finalResponseText' # finalResponseText =>
          (pc = "stream" /\ chunksSeen' = chunksSeen + 1 /\ ~aborted)
    /\ Forwarded(out') # Forwarded(out) =>
          (pc = "stream" /\ chunksSeen' = chunksSeen + 1 /\ ~aborted)

\* C18: in every state of a routed run the accumulated text is the
\* concatenation, in order, of the provider chunks forwarded so far over all
\* iterations, notices and the pre-flight marker left out; a consumed chunk
\* is appended once and forwarded once in the step that consumes it.
C18_TextIsForwardedChunks ==
    /\ [](RoutedRun => finalResponseText = Forwarded(out))
    /\ [][RoutedRun => ChunkStep]_vars

\* the third iteration is reached after a retry notice, with the control
\* tags of the first two iterations in the accumulated text
C18_Witness ==
    /\ RoutedRun
    /\ loopCount >= 3
    /\ CountKind(out, "retry") >= 1
    /\ CountKind(out, "chunk") >= 2
    /\ HasControlTag(finalResponseText)
    /\ finalResponseText = Forwarded(out)

\* the fallback context is emitted in place of an empty text
FallbackEmitted == CountKind(out, "fallback") > 0

\* a recognized closing tag is in the text
ClosingTagIn(text) == \E c \in ClosingTags : c \in Range(text)

\* text ends with tail
EndsWith(text, tail) ==
    /\ Len(tail) <= Len(text)
    /\ SubSeq(text, Len(text) - Len(tail) + 1, Len(text)) = tail

\* while a stream is consumed the text of this iteration holds no closing
\* tag; it is the end of the accumulated text
StreamOpen ==
    pc = "stream" =>
       /\ ~ClosingTagIn(generatedThisLoop)
       /\ EndsWith(finalResponseText, generatedThisLoop)
       /\ chunksSeen = 0 => generatedThisLoop = <<>>

\* the text of an iteration starts empty and grows by the consumed chunk;
\* a transition is taken on a tag of that text and on nothing else
StreamStep ==
    /\ (pc # "stream" /\ pc' = "stream") =>
          (generatedThisLoop' = <<>> /\ chunksSeen' = 0)
    /\ (pc = "stream" /\ chunksSeen' = chunksSeen + 1 /\ ~aborted) =>
          \E c \in env.chunks : generatedThisLoop' = generatedThisLoop \o c.text
    /\ (pc = "stream" /\ ClosingTagIn(generatedThisLoop')) => pc' # "stream"
    /\ hist'.last # hist.last =>
          /\ pc \in {"stream", "batch"}
          /\ hist'.last.gen = generatedThisLoop'
          /\ hist'.last.rule # "none" => ClosingTagIn(hist'.last.gen)
          /\ ~HasControlTag(hist'.last.gen) =>
                (hist'.last.rule = "none" /\ pc' = "done" /\ result'.line = 424)

\* C19: once the text of this iteration holds a recognized closing tag no
\* further chunk of the stream is consumed; the scan and the tag rules see
\* the text of this iteration only, so a tag of an earlier iteration neither
\* stops a later stream nor causes a transition.
C19_StopAtClosingTag == []StreamOpen /\ [][StreamStep]_vars

\* a later iteration has consumed a chunk and goes on streaming while the
\* accumulated text holds the closing tag of an earlier iteration
C19_Witness ==
    /\ pc = "stream"
    /\ loopCount >= 2
    /\ chunksSeen >= 1
    /\ generatedThisLoop # <<>>
    /\ ClosingTagIn(finalResponseText)
    /\ ~ClosingTagIn(generatedThisLoop)

\* a step taken after the cancellation was requested: no iteration begins
\* and no streaming request is issued; a step that reaches the head of the
\* loop returns at line 429 with the accumulated text as it is
CancelledStep ==
    aborted =>
       /\ loopCount' = loopCount
       /\ hist'.streams = hist.streams
       /\ pc # "request" => pc' # "request"
       /\ (pc = "memory" /\ pc' # pc /\ hist'.caught = hist.caught) =>
             (pc' = "done" /\ result' = Message(429, <<>>, metadataPayload'))
       /\ (pc = "batch" /\ pc' # pc /\ hist'.caught = hist.caught) =>
             (pc' = "done" /\ result'.line \in {424, 429})
       /\ (hist'.last # hist.last /\ hist'.last.rule # "none") =>
             (pc' = "done" /\ result'.line = 429)
       /\ (pc # "done" /\ pc' = "done" /\ result'.line = 429) =>
             /\ finalResponseText' = finalResponseText
             /\ result' = Message(429, finalResponseText, metadataPayload')

\* C20: when the cancellation has been requested at the head of the loop
\* the loop stops: no streaming request is issued in that iteration or a
\* later one, and the function returns the text accumulated so far,
\* unchanged.
C20_AbortAtLoopHead == [][RoutedRun => CancelledStep]_vars

\* the run was cancelled while a search batch was awaited and has returned
\* at line 429 before the loop bound, with the text of the iteration
C20_Witness ==
    /\ pc = "done"
    /\ aborted
    /\ result.line = 429
    /\ loopCount \in 1..(MAX_LOOPS - 1)
    /\ finalResponseText # <<>>
    /\ result.text = finalResponseText

\* the run was cancelled before its first iteration and has returned an
\* empty text
CancelledBeforeFirstIteration ==
    /\ pc = "done"
    /\ aborted
    /\ result = Message(429, <<>>, metadataPayload)
    /\ loopCount = 0
    /\ hist.streams = 0

\* the notices of an invocation against its provider calls: one notice for
\* every failed call that was followed or is to be followed by another call,
\* none for the call that ended the invocation
NoticesMatchRetries ==
    /\ wstate \in {"calling", "delaying"} => Len(notices) = Len(calls)
    /\ (wstate \in {"returned", "thrown"} /\ calls # <<>>) =>
          Len(notices) = Len(calls) - 1
    /\ wstate # "idle" =>
          \A k \in 1..Len(notices) :
             /\ k <= Len(calls)
             /\ RateLimit(calls[k])
             /\ notices[k].kind = "retry"
             /\ notices[k].seconds = RoundSeconds(delays[k])
    /\ (caller = "agent" /\ wstate # "idle") => Len(notices) <= DispatcherRetries

\* a notice is emitted in the step in which a call fails with a rate-limit
\* error, before the delay and the next call; the dispatcher forwards it to
\* the output callback in that step
NoticeStep ==
    /\ (notices' # notices /\ notices' # <<>>) =>
          /\ wstate = "calling"
          /\ wstate' = "delaying"
          /\ Len(notices') = Len(notices) + 1
          /\ Len(calls') = Len(notices')
          /\ RateLimit(calls'[Len(calls')])
          /\ caller = "agent" =>
                /\ Len(out') = Len(out) + 1
                /\ out'[Len(out')].kind = "retry"
                /\ out'[Len(out')].seconds = notices'[Len(notices')].seconds
    /\ (wstate = "calling" /\ wstate' = "thrown") => (notices' = notices /\ out' = out)
    /\ (wstate = "delaying" /\ wstate' = "calling") => Len(notices) = Len(calls)

\* C21: within one invocation the number of notices equals the number of
\* retries (at most 3 for the dispatcher); notice k is emitted after
\* rate-limit failure k and before provider call k+1; the failure that ends
\* the invocation gets no notice.
C21_RetryNotices == []NoticesMatchRetries /\ [][NoticeStep]_vars

\* the third call of an invocation of the dispatcher has succeeded after two
\* notices
C21_Witness ==
    /\ caller = "agent"
    /\ wstate = "returned"
    /\ Len(calls) = 3
    /\ Len(notices) = 2
    /\ CountKind(out, "retry") >= 2

\* a query of the batch has not resolved yet
InFlight == pc = "batch" /\ \E i \in DOMAIN batch : batch[i].status # "done"

\* a step taken while a query is in flight writes nothing but the promise
\* that resolves; the search context is written only by the join
BatchStep ==
    /\ InFlight =>
          /\ fallbackSearchContext' = fallbackSearchContext
          /\ metadataPayload' = metadataPayload
          /\ currentPrompt' = currentPrompt
          /\ currentAction' = currentAction
          /\ finalResponseText' = finalResponseText
          /\ out' = out
          /\ request' = request
          /\ pc' = "batch"
          /\ Len(batch') = Len(batch)
          /\ \A i \in DOMAIN batch : batch'[i].query = batch[i].query
    /\ fallbackSearchContext' # fallbackSearchContext =>
          /\ pc = "batch"
          /\ \A i \in DOMAIN batch : batch[i].status = "done"
          /\ fallbackSearchContext' =
                AggregatedContext(SelectSeq(batch, LAMBDA r : r.pages # <<>>))

\* C22: the aggregated context, the fallback search context, the grounding
\* metadata and the synthesized prompt are written only after every query
\* of the batch has resolved, under every interleaving of the completions.
C22_WriteAfterJoin == [][BatchStep]_vars

\* the second query has resolved with pages while the first is still
\* fetching, and nothing has been aggregated
C22_Witness ==
    /\ pc = "batch"
    /\ Len(batch) = 2
    /\ batch[1].status = "fetching"
    /\ batch[2].status = "done"
    /\ batch[2].pages # <<>>
    /\ fallbackSearchContext = <<>>
    /\ metadataPayload.items = <<>>

\* file i has a part of one of the kinds in the user turn of the request
HasPart(req, i, kinds) ==
    \E k \in DOMAIN req.embedded : req.embedded[k].file = i /\ req.embedded[k].part \in kinds

\* no read of an attached file has failed for the request
ReadsSucceeded(req) ==
    \A k \in DOMAIN req.embedded : req.embedded[k].part \in {"inlineData", "fileText"}

\* C23: when the model of a request is a native one, the substituted
\* default model included, and files are attached, every image is in the
\* user turn as inline data and every text file as inlined text; when the
\* model of the request is not native nothing is embedded.
C23_EmbeddedWhenNative ==
    (RoutedRun /\ request # NoRequest /\ ReadsSucceeded(request)) =>
       IF isGoogleModel(request.model)
       THEN \A i \in DOMAIN input.files :
               /\ input.files[i] = "image" => HasPart(request, i, {"inlineData"})
               /\ input.files[i] = "text" => HasPart(request, i, {"fileText"})
       ELSE request.embedded = <<>>

\* what the code does: the files are embedded when the model selected
\* before the key fallback is a native one
EmbeddedBySelectedModel ==
    (RoutedRun /\ request # NoRequest) =>
       IF isGoogleModel(SelectedModel(input))
       THEN \A i \in DOMAIN input.files :
               /\ input.files[i] = "image" => HasPart(request, i, {"inlineData", "imageError"})
               /\ input.files[i] = "text" => HasPart(request, i, {"fileText", "textError"})
               /\ input.files[i] = "binary" => ~HasPart(request, i, {"inlineData", "fileText", "imageError", "textError"})
       ELSE request.embedded = <<>>

\* a request to the substituted native model carries none of the attached
\* files
FilesDroppedAfterFallback ==
    /\ RoutedRun
    /\ pc = "request"
    /\ input.files # <<>>
    /\ CountKind(out, "keyMissing") = 1
    /\ isGoogleModel(request.model)
    /\ request.embedded = <<>>

\* a search fallback context comes with an accumulated text that holds a
\* SEARCH tag, and the output callback has never received a fallback context
FallbackImpliesText ==
    RoutedRun =>
       /\ fallbackSearchContext # <<>> =>
             /\ finalResponseText # <<>>
             /\ \E k \in DOMAIN finalResponseText : finalResponseText[k] # " "
             /\ "<SEARCH>" \in Range(finalResponseText)
             /\ "</SEARCH>" \in Range(finalResponseText)
       /\ CountKind(out, "fallback") = 0
       /\ (pc = "done" /\ result.line = 424) => result.text = Forwarded(out)

\* the fallback context is set by the join of a batch of this iteration, the
\* text of which holds a SEARCH tag and is the end of the accumulated text
FallbackStep ==
    fallbackSearchContext' # fallbackSearchContext =>
       /\ pc = "batch"
       /\ fallbackSearchContext' # <<>>
       /\ SearchMatches(generatedThisLoop) # <<>>
       /\ EndsWith(finalResponseText', generatedThisLoop)

\* C24: in the turn-loop a non-empty search fallback context implies a
\* non-empty accumulated text, since the context is set only in an
\* iteration whose text held a SEARCH tag; the step that emits the fallback
\* context as the final response is never taken.
C24_FallbackNeverEmitted == [](FallbackImpliesText) /\ [][RoutedRun => FallbackStep]_vars

\* the run has returned at line 424 from an iteration without a tag while a
\* fallback context was set
C24_Witness ==
    /\ RoutedRun
    /\ pc = "done"
    /\ result.line = 424
    /\ fallbackSearchContext # <<>>
    /\ hist.last.rule = "none"
    /\ result.text = finalResponseText
    /\ finalResponseText # <<>>

\* the step in which the chunk loop finds the abort signal set: the chunk
\* is dropped, no search, fetch or provider request is started, no action
\* transition is made, and the function returns the accumulated text
AbortObservedStep ==
    (pc = "stream" /\ aborted /\ chunksSeen' = chunksSeen + 1) =>
       /\ pc' = "done"
       /\ result' = Message(424, finalResponseText, metadataPayload)
       /\ finalResponseText' = finalResponseText
       /\ generatedThisLoop' = generatedThisLoop
       /\ out' = out
       /\ batch' = <<>>
       /\ request' = request
       /\ wstate' = "idle"
       /\ loopCount' = loopCount
       /\ hist'.streams = hist.streams
       /\ currentAction' = currentAction
       /\ currentPrompt' = currentPrompt
       /\ routingParameters' = routingParameters
       /\ fallbackSearchContext' = fallbackSearchContext

\* C25: once the abort signal has been observed in the chunk loop the
\* dispatcher starts no search, no page fetch and no provider request and
\* makes no action transition before it returns the accumulated text.
C25_NoWorkAfterAbort ==
    /\ [][RoutedRun => AbortObservedStep]_vars
    /\ [](hist.abortBreak =>
            (pc = "done" /\ result.line = 424 /\ result.text = hist.abortText
               /\ batch = <<>> /\ wstate = "idle"))

\* the signal was observed in the second iteration after a chunk of that
\* iteration had been consumed
C25_Witness ==
    /\ hist.abortBreak
    /\ pc = "done"
    /\ loopCount = 2
    /\ chunksSeen = 2
    /\ generatedThisLoop # <<>>
    /\ currentAction = "IMAGE"

\* the results of the batch by the position of their SEARCH tag in the text
\* of the iteration, those without pages left out
ByTagPosition(gen, b) ==
    SelectSeq([i \in 1..Len(b) |-> [query |-> QueriesOf(gen)[i], pages |-> b[i].pages]],
              LAMBDA r : r.pages # <<>>)

RECURSIVE MetaInOrder(_)
\* the uri and title of every page of a list of results, in order
MetaInOrder(rs) ==
    IF rs = <<>> THEN <<>>
    ELSE [k \in 1..Len(Head(rs).pages) |->
             [uri |-> Head(rs).pages[k].url, title |-> Head(rs).pages[k].title]]
         \o MetaInOrder(Tail(rs))

\* the join of a batch with a result that has pages: what it writes is
\* determined by the results and the position of their tags
JoinStep ==
    (pc = "batch" /\ pc' # "batch" /\ ByTagPosition(generatedThisLoop, batch) # <<>>) =>
       LET rs == ByTagPosition(generatedThisLoop, batch) IN
       /\ Len(batch) = Len(QueriesOf(generatedThisLoop))
       /\ fallbackSearchContext' = rs
       /\ metadataPayload'.items = metadataPayload.items \o MetaInOrder(rs)
       /\ currentPrompt'.kind = "synthesis"
       /\ currentPrompt'.queries = QueriesOf(generatedThisLoop)
       /\ currentPrompt'.context = rs
       /\ hist'.joinRanks = [i \in 1..Len(batch) |-> batch[i].rank]

\* C26: the aggregated context, the appended metadata and the query labels
\* of the synthesized prompt are the same under every order in which the
\* queries of a batch complete: result sets are ordered by the position of
\* their SEARCH tag in the streamed text.
C26_OrderIndependent == [][JoinStep]_vars

\* the second query of a batch completed before the first, both with pages,
\* and the context lists the first query first
C26_Witness ==
    /\ pc = "request"
    /\ hist.joinRanks = <<2, 1>>
    /\ Len(fallbackSearchContext) = 2
    /\ fallbackSearchContext[1].query = <<"q1">>
    /\ fallbackSearchContext[2].query = <<"q2">>
    /\ currentPrompt.queries = <<<<"q1">>, <<"q2">>>>
    /\ Len(metadataPayload.items) = 2
    /\ metadataPayload.items[1].uri = "u1"

\* C27: in instant mode a failure of the completion request, a cancellation
\* raised as an exception included, makes the function throw the error
\* 'Instant mode service unavailable.'; no message is returned, with or
\* without text, and a run that returns a message has caught no error.
C27_InstantFailure ==
    /\ InstantRun =>
          /\ pc = "thrown" <=> hist.instant.caught # NoError
          /\ pc = "thrown" =>
                /\ hist.instant.thrown.name = "Error"
                /\ hist.instant.thrown.hasMsg
                /\ "text" \in DOMAIN hist.instant.thrown
                /\ hist.instant.thrown.text = "Instant mode service unavailable."
                /\ result = NoResult
                /\ hist.free = 1
          /\ pc = "done" => (result.line = 139 /\ hist.instant.thrown = NoError)
    /\ input.thinkingMode # "instant" => (pc # "thrown" /\ hist.instant.caught = NoError)

\* the request of an instant run with files was cancelled after a part of
\* the text had been streamed, and the function has thrown
C27_Witness ==
    /\ InstantRun
    /\ pc = "thrown"
    /\ aborted
    /\ hist.instant.caught.name = "AbortError"
    /\ out # <<>>
    /\ input.files # <<>>
    /\ result = NoResult

\* whatever the current action is, the request that is awaited is the one
\* request of the iteration and its last user turn is the current prompt
OneRequestPerIteration ==
    (RoutedRun /\ pc \in {"request", "stream", "batch"}) =>
       /\ currentAction \in RouterActions
       /\ hist.streams = loopCount
       /\ request.prompt = currentPrompt
       /\ request.model = model
       /\ request.thinkingBudget = thinkingBudget
       /\ request.external = externalSearchContext

\* a step that takes a tag rule: the action and the prompt are those of the
\* rule, the routing parameters change for IMAGE only, and the accumulated
\* text, the metadata and the search contexts are those the consumed chunk
\* left
TransitionStep ==
    (hist'.last # hist.last /\ hist'.last.rule \notin {"none", "BATCH"}) =>
       /\ currentAction' = hist'.last.action
       /\ currentPrompt' = hist'.last.prompt
       /\ currentPrompt'.kind = "text"
       /\ routingParameters' =
             IF hist'.last.rule = "IMAGE"
             THEN [set |-> TRUE, prompt |-> currentPrompt'.text]
             ELSE routingParameters
       /\ fallbackSearchContext' = fallbackSearchContext
       /\ externalSearchContext' = externalSearchContext
       /\ externalMetadata' = externalMetadata
       /\ \/ /\ finalResponseText' = finalResponseText
             /\ metadataPayload' = metadataPayload
             /\ out' = out
          \/ /\ pc = "stream"
             /\ \E c \in env.chunks :
                   /\ finalResponseText' = finalResponseText \o c.text
                   /\ generatedThisLoop' = generatedThisLoop \o c.text
                   /\ metadataPayload'.items =
                         metadataPayload.items \o
                            (IF isNative /\ c.grounded THEN c.grounding ELSE <<>>)
       /\ pc' = "request" =>
             (loopCount' = loopCount + 1 /\ request'.prompt = currentPrompt')

RequestUnderRoutedAction ==
    /\ RoutedRun
    /\ pc = "request"
    /\ loopCount = 1
    /\ currentAction = "CANVAS"
    /\ request.prompt = TextPrompt(input.prompt)

\* the error the wrapper has thrown is the error of its last provider call
SurfacedError ==
    wstate = "thrown" =>
       /\ calls # <<>>
       /\ werror = calls[Len(calls)]
       /\ werror \in ProviderErrors
       /\ werror # ErrMaxRetries
       /\ RateLimit(werror) => (Len(calls) = retries + 1 /\ attempt = retries)
       /\ Len(calls) = attempt + 1

\* the wrapper waits only when another attempt is allowed, so the loop is
\* never left through its condition
LoopNeverExhausted ==
    /\ wstate = "delaying" => attempt < retries
    /\ wstate \in {"calling", "delaying"} => attempt <= retries

\* C29: when the attempts are exhausted the wrapper throws the provider's
\* error of the last attempt; the error 'Max retries exceeded' that follows
\* the retry loop is raised for no retry count >= 0.
C29_LastErrorSurfaced == SurfacedError /\ LoopNeverExhausted

\* called with retry count 0 the wrapper has thrown the rate-limit error of
\* its only call
C29_Witness ==
    /\ caller = "direct"
    /\ retries = 0
    /\ wstate = "thrown"
    /\ Len(calls) = 1
    /\ RateLimit(calls[1])
    /\ werror = calls[1]

\* called with the largest retry count the wrapper has thrown the
\* rate-limit error of its last call
ExhaustedAtLargestCount ==
    /\ caller = "direct"
    /\ retries = MaxRetriesArg
    /\ wstate = "thrown"
    /\ Len(calls) = MaxRetriesArg + 1
    /\ RateLimit(werror)

\* the component is rendered with the searching panel
Searching == pc = "ui" /\ ui.mounted /\ ui.isSearching

\* C30 as stated: while isSearching holds the displayed query is an element
\* of the list of queries, at most one timer is active, and none is active
\* while isSearching is false.
C30_Original ==
    pc = "ui" =>
       /\ Searching =>
             \E i \in DOMAIN Queries(ui.query) : ui.displayQuery = Queries(ui.query)[i]
       /\ Len(ui.timers) <= 1
       /\ ~ui.isSearching => ui.timers = <<>>

\* the component once the effect of its last render has run
AfterEffect ==
    (pc = "ui" /\ ui.effect = "done") =>
       LET queries == Queries(ui.query) IN
       /\ (ui.mounted /\ ui.isSearching) =>
             /\ \E i \in DOMAIN queries : ui.displayQuery = queries[i]
             /\ Len(queries) = 1 => (ui.timers = <<>> /\ ui.displayQuery = queries[1])
             /\ Len(queries) >= 2 =>
                   /\ Len(ui.timers) = 1
                   /\ ui.timers[1].queries = queries
                   /\ ui.timers[1].index \in 0..(Len(queries) - 1)
                   /\ ui.displayQuery = queries[ui.timers[1].index + 1]
       /\ (~ui.mounted \/ ~ui.isSearching) => ui.timers = <<>>

\* whatever the effect has done or not yet done: one timer at most, and
\* only over a list of two queries or more
TimersBounded ==
    pc = "ui" =>
       /\ Len(ui.timers) <= 1
       /\ \A k \in DOMAIN ui.timers : Len(ui.timers[k].queries) >= 2
       /\ (ui.query.kind = "missing" \/ (ui.query.kind = "array" /\ ui.query.items = <<>>)) =>
             Queries(ui.query) = <<<<"info">>>>

\* a step of the component: the effect starts at the first query, a tick
\* moves to the next query cyclically, and a timer ends in a run of the
\* effect only
TimerStep ==
    /\ (ui.effect = "pending" /\ ui'.effect = "done" /\ ui.mounted /\ ui.isSearching) =>
          ui'.displayQuery = Queries(ui.query)[1]
    /\ (ui'.timers # ui.timers /\ Len(ui'.timers) = Len(ui.timers) /\ ui.effect = ui'.effect) =>
          LET t == ui.timers[1]
              n == Len(t.queries)
          IN  /\ ui'.timers[1].index = IF t.index + 1 = n THEN 0 ELSE t.index + 1
              /\ ui'.timers[1].queries = t.queries
              /\ ui.mounted => ui'.displayQuery = t.queries[ui'.timers[1].index + 1]
    /\ Len(ui'.timers) # Len(ui.timers) => (ui.effect = "pending" /\ ui'.effect = "done")
    /\ ui'.displayQuery # ui.displayQuery =>
          (ui.mounted /\ (ui.timers # <<>> \/ ui.effect = "pending"))

\* C30 as amended: once the effect of the last render has run, a searching
\* component displays an element of the list of queries ('info' for a
\* missing or empty query), the first one after the run and the next one
\* cyclically after each tick when there are two or more; one timer at most
\* is active, none for a single query, and none once the effect has run
\* after isSearching became false or the component was unmounted.  Between
\* a render and the run of its effect the component displays the query of
\* the state before (the empty text after the first render) and the timer
\* of the effect before is still active.
C30_Rotation == [](AfterEffect /\ TimersBounded) /\ [][pc = "ui" => TimerStep]_vars

\* the timer over three queries has ticked to the last of them
C30_Witness ==
    /\ Searching
    /\ ui.effect = "done"
    /\ Len(ui.query.items) = 3
    /\ Len(ui.timers) = 1
    /\ ui.timers[1].index = 2
    /\ ui.displayQuery = ui.query.items[3]

\* the component is rendered without isSearching and the timer of the
\* search is still active
TimerActiveAfterSearch ==
    /\ pc = "ui"
    /\ ui.mounted
    /\ ~ui.isSearching
    /\ ui.timers # <<>>
    /\ ui.effect = "pending"

\* the searching panel displays the query of another list than the one of
\* its props
StaleQueryDisplayed ==
    /\ Searching
    /\ ui.displayQuery # <<>>
    /\ \A i \in DOMAIN Queries(ui.query) : ui.displayQuery # Queries(ui.query)[i]

\* the model the thinking mode selects, before the compatibility test
\* (handler.ts:146-159)
ModeModel(inp) ==
    CASE inp.thinkingMode = "deep" ->
            IF inp.preferredDeep.blank THEN Gemini3Pro ELSE inp.preferredDeep
      [] inp.thinkingMode = "think" -> Gemini25Flash
      [] OTHER -> IF inp.model.blank THEN Gemini25Flash ELSE inp.model

\* a provider request of the loop has been issued
RequestIssued == RoutedRun /\ pc # "start" /\ request # NoRequest

\* the budget of a request is the one of the mode, and a request with a
\* budget goes to a model whose id contains 'gemini-2.5' or 'gemini-3'
BudgetOfRequest ==
    RequestIssued =>
       /\ request.thinkingBudget = (CASE input.thinkingMode = "deep" -> 8192
                                      [] input.thinkingMode = "think" -> 2048
                                      [] OTHER -> 0)
       /\ request.thinkingBudget > 0 => (request.model.has25 \/ request.model.has3)
       /\ input.thinkingMode = "think" => request.model = Gemini25Flash

\* the notice of the compatibility switch is emitted once at most, in a
\* thinking mode only, and only when the model the mode selected was
\* another one than the gemini-2.5-flash that replaces it
SwitchNotice ==
    (RoutedRun /\ pc # "start") =>
       /\ CountKind(out, "thinkingSwitch") <= 1
       /\ CountKind(out, "thinkingSwitch") = 1 =>
             /\ input.thinkingMode = "deep"
             /\ ModeModel(input) # Gemini25Flash
             /\ ~ModeModel(input).has25 /\ ~ModeModel(input).has3
             /\ model = Gemini25Flash
       /\ (input.thinkingMode = "deep" /\ ~ModeModel(input).has25 /\ ~ModeModel(input).has3) =>
             CountKind(out, "thinkingSwitch") = 1

\* C31: in a routed run the budget of a provider request is 8192 in deep
\* mode, 2048 in think mode and 0 otherwise; a request with a budget goes to
\* a model whose id contains 'gemini-2.5' or 'gemini-3'; think mode uses
\* gemini-2.5-flash whatever model was selected; the notice of the
\* compatibility switch is emitted once at most and only when the model was
\* replaced.
C31_ThinkingBudget == BudgetOfRequest /\ SwitchNotice

\* deep mode with a preferred model that supports no thinking and with an
\* OpenRouter key: the second request of the run goes to gemini-2.5-flash
\* with the budget of deep mode, after one notice
C31_Witness ==
    /\ input.thinkingMode = "deep"
    /\ input.preferredDeep = Gpt4o
    /\ input.openRouterKey
    /\ pc = "stream"
    /\ loopCount = 2
    /\ request.model = Gemini25Flash
    /\ request.thinkingBudget = 8192
    /\ CountKind(out, "thinkingSwitch") = 1
    /\ CountKind(out, "keyMissing") = 0

\* think mode with a selected model of another provider: the request goes
\* to gemini-2.5-flash with the budget of think mode and without notice
ThinkReplacesSilently ==
    /\ input.thinkingMode = "think"
    /\ input.model = Gpt4o
    /\ pc = "stream"
    /\ request.model = Gemini25Flash
    /\ request.thinkingBudget = 2048
    /\ CountKind(out, "thinkingSwitch") = 0

\* deep mode with a preferred model of OpenRouter whose id contains
\* 'gemini-3': the request keeps that model and the budget
DeepKeepsOpenRouterModel ==
    /\ pc = "stream"
    /\ request.model = OrGemini3
    /\ request.thinkingBudget = 8192

=============================================================================
